---- MODULE Spec2Model ----
(***************************************************************************)
(* A model of the Vikunja kanban helper (scripts/vikunja.py): the status   *)
(* block codec, the task resolver, the label helpers and the commands that *)
(* wire them to the board.                                                 *)
(*                                                                         *)
(* Text is a sequence of symbols.  A symbol is a one-character string, or  *)
(* one of the fixed literals of the program taken as a whole (a delimiter  *)
(* comment, a fixed line of the status block).  The delimiter literals     *)
(* start with "<", end with ">" and hold neither inside, so an occurrence  *)
(* of one never overlaps another or straddles a line break: searching for  *)
(* the symbol is searching for the literal.                                *)
(***************************************************************************)
EXTENDS Integers, Sequences, FiniteSets, TLC

VARIABLES
    description,    \* merge: the description being re-synchronized
    mergeIn,        \* merge: <<>> or <<the arguments of the last merge>>
    merges,         \* merge: number of merges applied
    today,          \* date.today(), as a day number
    tasks,          \* the tasks of the view, in the board's fetch order
    hint,           \* resolver: the match hint (pr_number, branch, title)
    result,         \* resolver: <<>> (None) or <<the task returned>>
    resolved,       \* resolver: find_task_by_matching has returned
    labels,         \* the board's labels, in list order
    buckets,        \* the view's buckets
    comments,       \* the comments added, oldest first
    steps,          \* number of invocations run
    out,            \* the last invocation: its command, arguments and JSON output
    lastUpdate,     \* <<>> or <<the object the last invocation sent to update_task>>
    streak,         \* the run of identical ensure-task invocations in progress
    lcall,          \* the last ensure_labels_for_task call
    calls,          \* the mutating API calls of the last invocation, in order
    source,         \* renderer: the input (a text, list lines or list items)
    rendered,       \* renderer: <<>> or <<what the renderer returned>>
    procs,          \* concurrent invocations: command, arguments, position, reads
    writes,         \* concurrent invocations: the update_task calls, oldest first
    environ,        \* os.environ: the VIKUNJA_ variables, <<>> when unset
    zshrc_loaded,   \* _ZSHRC_LOADED
    cfg,            \* the flags, the rc file, and the settings read so far
    pager,          \* list_tasks_for_view: the server's pages and the loop's locals
    hook            \* stop hook: its input, what it found and what it did

mergeVars == <<description, mergeIn, merges>>
resolverVars == <<hint, result, resolved>>
boardVars == <<labels, buckets, comments, steps, out, lastUpdate, streak, lcall, calls>>
renderVars == <<source, rendered>>
raceVars == <<procs, writes>>
configVars == <<environ, zshrc_loaded, cfg>>
pageVars == <<pager>>
hookVars == <<hook>>
vars == <<description, mergeIn, merges, today, tasks, hint, result, resolved,
          labels, buckets, comments, steps, out, lastUpdate, streak, lcall, calls,
          source, rendered, procs, writes, environ, zshrc_loaded, cfg, pager, hook>>

(***************************************************************************)
(* Bounds                                                                  *)
(***************************************************************************)
MaxDescLen == 3
MaxMerges == 2
MaxDay == 2
MaxTasks == 3
MaxSteps == 3
MaxLabelSteps == 2
MaxCmdSteps == 2
MaxItems == 4
MaxLines == 3
MaxListLines == 3
MaxPages == 3
MaxCount == 2

(***************************************************************************)
(* Python str operations                                                   *)
(***************************************************************************)
\* str.strip() and str.lstrip() without an argument strip every character of
\* str.isspace(): the no-break space (U+00A0) is one of them
Whitespace == {" ", "\n", "\t", "(U+00A0)"}

RECURSIVE lstrip(_)
lstrip(s) ==
    IF s /= <<>> /\ Head(s) \in Whitespace THEN lstrip(Tail(s)) ELSE s

RECURSIVE rstrip(_)
rstrip(s) ==
    IF s /= <<>> /\ s[Len(s)] \in Whitespace
    THEN rstrip(SubSeq(s, 1, Len(s) - 1))
    ELSE s

strip(s) == lstrip(rstrip(s))

\* s.startswith(p)
startswith(s, p) == Len(p) <= Len(s) /\ SubSeq(s, 1, Len(p)) = p

\* s.find(t) + 1: the place of the first occurrence of t in s, 0 when none
find(s, t) ==
    LET hits == {i \in 1..(Len(s) - Len(t) + 1) : SubSeq(s, i, i + Len(t) - 1) = t}
    IN  IF hits = {} THEN 0 ELSE CHOOSE i \in hits : \A j \in hits : i <= j

\* t in s
contains(s, t) == find(s, t) /= 0

\* s.split(sep), sep not empty
RECURSIVE split(_, _)
split(s, sep) ==
    LET i == find(s, sep)
    IN  IF i = 0
        THEN <<s>>
        ELSE <<SubSeq(s, 1, i - 1)>> \o split(SubSeq(s, i + Len(sep), Len(s)), sep)

\* sep.join(parts)
RECURSIVE join(_, _)
join(sep, parts) ==
    IF parts = <<>> THEN <<>>
    ELSE IF Len(parts) = 1 THEN parts[1]
    ELSE parts[1] \o sep \o join(sep, Tail(parts))

\* s.lower(), over the letters the model's texts use
lower_char(c) ==
    CASE c = "B" -> "b"
      [] c = "D" -> "d"
      [] c = "F" -> "f"
      [] c = "I" -> "i"
      [] c = "P" -> "p"
      [] c = "R" -> "r"
      [] c = "X" -> "x"
      [] OTHER -> c

lower(s) == [i \in DOMAIN s |-> lower_char(s[i])]

RECURSIVE count(_, _)
count(s, t) ==
    LET i == find(s, t)
    IN  IF i = 0 THEN 0 ELSE 1 + count(SubSeq(s, i + Len(t), Len(s)), t)

\* html.escape(value, quote=True)
escape_char(c) ==
    CASE c = "&" -> <<"&", "a", "m", "p", ";">>
      [] c = "<" -> <<"&", "l", "t", ";">>
      [] c = ">" -> <<"&", "g", "t", ";">>
      [] c = "\"" -> <<"&", "q", "u", "o", "t", ";">>
      [] c = "'" -> <<"&", "#", "x", "2", "7", ";">>
      [] OTHER -> <<c>>

\* the text as it is, nothing escaped
escape_html_none(value) == value

RECURSIVE escape_html(_)
escape_html(value) ==
    IF value = <<>> THEN <<>>
    ELSE escape_char(Head(value)) \o escape_html(Tail(value))

(***************************************************************************)
(* HTML renderer.  The tags the renderer emits are symbols of their own    *)
(* ("<p>", "<ul>", "<li>", ...): a "<" of the user's text is the           *)
(* one-character symbol.  A character outside ASCII is written by its code *)
(* point: "(U+2013)" is the en dash, "(U+2610)" and "(U+2611)" the boxes.  *)
(***************************************************************************)
Min(S) == CHOOSE x \in S : \A y \in S : x <= y

\* [line for line in raw_lines if line.strip()]
RECURSIVE nonblank(_)
nonblank(raw_lines) ==
    IF raw_lines = <<>> THEN <<>>
    ELSE (IF strip(Head(raw_lines)) /= <<>> THEN <<Head(raw_lines)>> ELSE <<>>)
         \o nonblank(Tail(raw_lines))

\* line.lstrip(" \t")
RECURSIVE lstrip_blanks(_)
lstrip_blanks(s) ==
    IF s /= <<>> /\ Head(s) \in {" ", "\t"} THEN lstrip_blanks(Tail(s)) ELSE s

\* len(line) - len(line.lstrip(" "))
RECURSIVE leading_spaces(_)
leading_spaces(s) ==
    IF s /= <<>> /\ Head(s) = " " THEN 1 + leading_spaces(Tail(s)) ELSE 0

\* line.replace("\t", "  ")
RECURSIVE expand_tabs(_)
expand_tabs(s) ==
    IF s = <<>> THEN <<>>
    ELSE (IF Head(s) = "\t" THEN <<" ", " ">> ELSE <<Head(s)>>) \o expand_tabs(Tail(s))

_is_list_line(line) ==
    LET stripped == lstrip_blanks(line)
    IN  startswith(stripped, <<"-">>) \/ startswith(stripped, <<"*">>)

_apply_checkbox(content) ==
    LET lowered == lower(content)
    IN  IF startswith(lowered, <<"[", " ", "]">>)
        THEN <<"(U+2610)", " ">> \o lstrip(SubSeq(content, 4, Len(content)))
        ELSE IF startswith(lowered, <<"[", "x", "]">>)
        THEN <<"(U+2611)", " ">> \o lstrip(SubSeq(content, 4, Len(content)))
        ELSE content

\* one step of the loop of _render_nested_list: st is (parts, current_level,
\* open_li), open_li indexed from 1 for level 0
nested_open(st, level) ==
    LET n == level - st.current_level
    IN  [parts |-> st.parts \o [i \in 1..n |-> "<ul>"],
         current_level |-> level,
         open_li |-> st.open_li \o [i \in 1..n |-> FALSE]]

\* the lists closed without closing their open items
RECURSIVE nested_close_items_open(_, _)
nested_close_items_open(st, level) ==
    IF st.current_level > level
    THEN nested_close_items_open(
            [parts |-> st.parts \o <<"</ul>">>,
             current_level |-> st.current_level - 1,
             open_li |-> SubSeq(st.open_li, 1, Len(st.open_li) - 1)],
            level)
    ELSE st

RECURSIVE nested_close(_, _)
nested_close(st, level) ==
    IF st.current_level > level
    THEN nested_close(
            [parts |-> st.parts
                        \o (IF st.open_li[st.current_level + 1] THEN <<"</li>">> ELSE <<>>)
                        \o <<"</ul>">>,
             current_level |-> st.current_level - 1,
             open_li |-> SubSeq(st.open_li, 1, Len(st.open_li) - 1)],
            level)
    ELSE st

nested_item(st, item) ==
    LET a == IF item.level > st.current_level THEN nested_open(st, item.level)
             ELSE IF item.level < st.current_level THEN nested_close(st, item.level)
             ELSE st
        k == a.current_level + 1
    IN  [parts |-> a.parts \o (IF a.open_li[k] THEN <<"</li>">> ELSE <<>>)
                          \o <<"<li>">> \o escape_html(item.content),
         current_level |-> a.current_level,
         open_li |-> [a.open_li EXCEPT ![k] = TRUE]]

RECURSIVE nested_loop(_, _)
nested_loop(st, items) ==
    IF items = <<>> THEN st ELSE nested_loop(nested_item(st, Head(items)), Tail(items))

_render_nested_list(items) ==
    LET st == nested_loop([parts |-> <<"<ul>">>, current_level |-> 0,
                           open_li |-> <<FALSE>>], items)
        closed == nested_close(st, 0)
    IN  closed.parts \o (IF closed.open_li[1] THEN <<"</li>">> ELSE <<>>) \o <<"</ul>">>

\* the items with the level not held at 2
list_items_unclamped(lines) ==
    LET expanded == [i \in DOMAIN lines |-> expand_tabs(lines[i])]
        min_indent == Min({leading_spaces(expanded[i]) : i \in DOMAIN expanded})
    IN  [i \in DOMAIN expanded |->
            [level |-> (leading_spaces(expanded[i]) - min_indent) \div 2,
             content |-> <<>>]]

\* items of _render_list: (level, content) of every line
list_items(lines) ==
    LET expanded == [i \in DOMAIN lines |-> expand_tabs(lines[i])]
        min_indent == Min({leading_spaces(expanded[i]) : i \in DOMAIN expanded})
        item(line) ==
            LET indent == leading_spaces(line)
                stripped == lstrip(line)
                content == IF startswith(stripped, <<"-">>) \/ startswith(stripped, <<"*">>)
                           THEN lstrip(Tail(stripped))
                           ELSE stripped
                level == IF (indent - min_indent) \div 2 > 0
                         THEN (indent - min_indent) \div 2 ELSE 0
            IN  [level |-> IF level < 2 THEN level ELSE 2,
                 content |-> _apply_checkbox(content)]
    IN  [i \in DOMAIN expanded |-> item(expanded[i])]

_render_list(lines) == _render_nested_list(list_items(lines))

format_html_block(value) ==
    LET v == strip(value)
        split_lines == split(v, <<"\n">>)
        raw_lines == [i \in DOMAIN split_lines |-> rstrip(split_lines[i])]
        lines == nonblank(raw_lines)
    IN  IF v = <<>> \/ lines = <<>> THEN <<"<p>", "(U+2013)", "</p>">>
        ELSE IF \A i \in DOMAIN lines : _is_list_line(lines[i]) THEN _render_list(lines)
        ELSE <<"<p>">>
             \o join(<<"<br>">>, [i \in DOMAIN lines |-> escape_html(strip(lines[i]))])
             \o <<"</p>">>

\* None is <<>>: normalize_field gives the dash for None and for blank text
normalize_field(value) ==
    IF strip(value) = <<>> THEN <<"(U+2013)">> ELSE strip(value)

(***************************************************************************)
(* Status block codec                                                      *)
(***************************************************************************)
MANAGED_MARKER == <<"<!-- vikunja-skill:managed -->">>
STATUS_START == <<"<!-- vikunja-skill:status-start -->">>
STATUS_END == <<"<!-- vikunja-skill:status-end -->">>

\* date.today().isoformat(), one symbol per date
isoformat(day) == <<ToString(day)>>

status_block(summary_html, progress) ==
    join(<<"\n">>,
         << STATUS_START,
            <<"<p><strong>Sammanfattning:</strong></p>">>,
            summary_html,
            <<"<p><strong>Progress:</strong> ">> \o escape_html(progress) \o <<"</p>">>,
            <<"<p><strong>Senast uppdaterad:</strong> ">> \o isoformat(today) \o <<"</p>">>,
            STATUS_END >>)

update_status_in_description(desc, summary_html, progress) ==
    LET block == status_block(summary_html, progress)
    IN  IF contains(desc, STATUS_START) /\ contains(desc, STATUS_END)
        THEN LET before == rstrip(split(desc, STATUS_START)[1])
                 after == lstrip(split(desc, STATUS_END)[2])
             IN  strip(join(<<"\n">>, <<before, block, after>>)) \o <<"\n">>
        ELSE rstrip(desc) \o <<"\n", "\n">> \o block \o <<"\n">>

(***************************************************************************)
(* Task resolver.  None and the empty string are both false to the code's  *)
(* tests (if pr_number, if branch, if title): an absent hint is <<>>.  The *)
(* result is <<>> for None and <<task>> for a task.                        *)
(***************************************************************************)
Label(id, title) == [id |-> id, title |-> title]

\* a scan that keeps the last passing task instead of returning the first
last_task(list, passing) ==
    IF passing = {} THEN <<>>
    ELSE <<list[CHOOSE i \in passing : \A j \in passing : i >= j]>>

\* for task in tasks: if <test>: return task -- passing is the set of places
\* of the list whose task passes the test
first_task(list, passing) ==
    IF passing = {} THEN <<>>
    ELSE <<list[CHOOSE i \in passing : \A j \in passing : i <= j]>>

task_matches_label(task, label_name) ==
    \E k \in DOMAIN task.labels :
        lower(strip(task.labels[k].title)) = lower(label_name)

pr_label_name(pr_number) == <<"p", "r", "-">> \o pr_number
pr_title_prefix(pr_number) == <<"[", "P", "R", "-">> \o pr_number \o <<"]">>
branch_marker(branch) ==
    <<"[", "b", "r", "a", "n", "c", "h", ":">> \o branch \o <<"]">>

\* the two scans in the other order: title prefix first
match_pr_prefix_first(list, pr_number) ==
    IF pr_number = <<>> THEN <<>>
    ELSE LET byPrefix ==
                 first_task(list, {i \in DOMAIN list :
                                  startswith(list[i].title, pr_title_prefix(pr_number))})
         IN  IF byPrefix /= <<>> THEN byPrefix
             ELSE first_task(list, {i \in DOMAIN list :
                                  task_matches_label(list[i], pr_label_name(pr_number))})

\* if pr_number: the label scan, then the title-prefix scan
match_pr(list, pr_number) ==
    IF pr_number = <<>> THEN <<>>
    ELSE LET byLabel ==
                 first_task(list, {i \in DOMAIN list :
                                  task_matches_label(list[i], pr_label_name(pr_number))})
         IN  IF byLabel /= <<>> THEN byLabel
             ELSE first_task(list, {i \in DOMAIN list :
                                  startswith(list[i].title, pr_title_prefix(pr_number))})

\* if branch: the marker in the title or in the description
match_branch(list, branch) ==
    IF branch = <<>> THEN <<>>
    ELSE first_task(list, {i \in DOMAIN list :
                             \/ contains(list[i].title, branch_marker(branch))
                             \/ contains(list[i].description, branch_marker(branch))})

\* the title scan without its guard: if title
match_title_unguarded(list, pr_number, branch, title) ==
    IF title /= <<>>
    THEN first_task(list, {i \in DOMAIN list :
                              lower(strip(list[i].title)) = lower(strip(title))})
    ELSE <<>>

\* if title and not pr_number and not branch
match_title(list, pr_number, branch, title) ==
    IF title /= <<>> /\ pr_number = <<>> /\ branch = <<>>
    THEN first_task(list, {i \in DOMAIN list :
                              lower(strip(list[i].title)) = lower(strip(title))})
    ELSE <<>>

\* the branch scan as an elif of the pr_number test
find_task_by_matching_elif(list, pr_number, branch, title) ==
    IF pr_number /= <<>> THEN match_pr(list, pr_number)
    ELSE IF match_branch(list, branch) /= <<>> THEN match_branch(list, branch)
    ELSE match_title(list, pr_number, branch, title)

find_task_by_matching(list, pr_number, branch, title) ==
    IF match_pr(list, pr_number) /= <<>> THEN match_pr(list, pr_number)
    ELSE IF match_branch(list, branch) /= <<>> THEN match_branch(list, branch)
    ELSE match_title(list, pr_number, branch, title)

(***************************************************************************)
(* Board Gateway.  A board b is [tasks, labels, comments]: what the remote *)
(* API holds.  A call that ends in die(...) (a 404, a name not found) is   *)
(* reported by the caller as action "error"; the calls made before it      *)
(* stay made.  Ids are positive: 0 stands for None.                        *)
(***************************************************************************)
DEFAULT_PROJECT == <<"I", "n", "t", "e", "r", "n", "a", "l", " ", "T", "O", "D", "O">>
DEFAULT_VIEW == <<"K", "a", "n", "b", "a", "n">>
DEFAULT_BUCKET == <<"I", "d", "(U+00E9)">>

\* the projects of the account and the views of the project: no call of the
\* code creates or changes one
TheProjects == <<[id |-> 1, title |-> DEFAULT_PROJECT]>>
TheViews == <<[id |-> 1, title |-> DEFAULT_VIEW]>>

\* list_labels asks for page 1 with per_page = 250 and for no other page
LabelsPerPage == 250

\* the board an invocation starts on; log is the mutating calls it has made
Board == [tasks |-> tasks, labels |-> labels, comments |-> comments, log |-> <<>>]

\* one mutating request (PUT, POST, DELETE) as the board receives it
Call(op, task_id, label_id) ==
    [op |-> op, task_id |-> task_id, label_id |-> label_id, title |-> <<>>,
     description |-> <<>>, bucket_id |-> 0]

NoOutput == [cmd |-> "none", args |-> <<>>, action |-> "none", task_id |-> 0, percent |-> 0]
NoStreak == [n |-> 0, first |-> "none", base |-> <<>>]

\* label.get("title", "").strip().lower(): what two titles are compared by
label_key(title) == lower(strip(title))

\* 0: die("Project not found")
find_project_id(name) ==
    LET hits == {i \in DOMAIN TheProjects :
                    lower(strip(TheProjects[i].title)) = lower(strip(name))}
    IN  IF hits = {} THEN 0 ELSE TheProjects[Min(hits)].id

\* 0: die("View not found")
find_view_id(view_name) ==
    LET hits == {i \in DOMAIN TheViews :
                    lower(strip(TheViews[i].title)) = lower(strip(view_name))}
    IN  IF hits = {} THEN 0 ELSE TheViews[Min(hits)].id

\* args.view or DEFAULT_VIEW, looked up: the environment sets no name
view_of(args) == find_view_id(IF args.view /= <<>> THEN args.view ELSE DEFAULT_VIEW)

\* find_project_id and then find_view_id of a command: 0 when either dies
project_and_view(args) ==
    IF find_project_id(IF args.project /= <<>> THEN args.project ELSE DEFAULT_PROJECT) = 0
    THEN 0
    ELSE view_of(args)

\* 0: die("Bucket not found")
find_bucket_id(bucket_name) ==
    LET hits == {i \in DOMAIN buckets :
                    lower(strip(buckets[i].title)) = lower(strip(bucket_name))}
    IN  IF hits = {} THEN 0 ELSE buckets[Min(hits)].id

\* the flat pages of the view, concatenated
list_tasks_for_view(b) == b.tasks

\* <<>>: HTTP 404, the caller dies
get_task(b, task_id) ==
    LET hits == {i \in DOMAIN b.tasks : b.tasks[i].id = task_id}
    IN  IF hits = {} THEN <<>> ELSE <<b.tasks[Min(hits)]>>

\* the request logged, the stored object left as it was
update_task_not_stored(b, task) ==
    [b EXCEPT !.log = Append(@, [Call("update_task", task.id, 0) EXCEPT
                                    !.title = task.title,
                                    !.description = task.description,
                                    !.bucket_id = task.bucket_id])]

\* POST /tasks/{id}: the stored object is replaced by the one sent
update_task(b, task) ==
    [b EXCEPT !.tasks = [i \in DOMAIN b.tasks |->
                            IF b.tasks[i].id = task.id THEN task ELSE b.tasks[i]],
              !.log = Append(@, [Call("update_task", task.id, 0) EXCEPT
                                    !.title = task.title,
                                    !.description = task.description,
                                    !.bucket_id = task.bucket_id])]

create_task(b, payload) ==
    LET created == [id |-> Len(b.tasks) + 1, title |-> payload.title,
                    description |-> payload.description,
                    bucket_id |-> payload.bucket_id, labels |-> <<>>,
                    percent_done |-> <<0, 1>>]
    IN  [board |-> [b EXCEPT !.tasks = Append(@, created),
                             !.log = Append(@, [Call("create_task", created.id, 0) EXCEPT
                                                   !.title = payload.title,
                                                   !.description = payload.description,
                                                   !.bucket_id = payload.bucket_id])],
         created |-> created]

list_labels(b) ==
    SubSeq(b.labels, 1,
           IF Len(b.labels) < LabelsPerPage THEN Len(b.labels) ELSE LabelsPerPage)

\* 0: None
find_label_id(b, label_name) ==
    LET page == list_labels(b)
        hits == {i \in DOMAIN page :
                    lower(strip(page[i].title)) = lower(strip(label_name))}
    IN  IF hits = {} THEN 0 ELSE page[Min(hits)].id

ensure_label_id(b, label_name) ==
    LET label_id == find_label_id(b, label_name)
    IN  IF label_id /= 0
        THEN [board |-> b, id |-> label_id]
        ELSE [board |-> [b EXCEPT !.labels = Append(@, Label(Len(b.labels) + 1, label_name)),
                                  !.log = Append(@, [Call("create_label", 0, Len(b.labels) + 1)
                                                        EXCEPT !.title = label_name])],
              id |-> Len(b.labels) + 1]

\* PUT /tasks/{id}/labels: the board attaches the label with that id
add_label_to_task(b, task_id, label_id) ==
    LET label == b.labels[CHOOSE k \in DOMAIN b.labels : b.labels[k].id = label_id]
    IN  [b EXCEPT !.tasks = [i \in DOMAIN b.tasks |->
                                IF b.tasks[i].id = task_id
                                THEN [b.tasks[i] EXCEPT !.labels = Append(@, label)]
                                ELSE b.tasks[i]],
                  !.log = Append(@, Call("add_label_to_task", task_id, label_id))]

add_comment(b, task_id, comment) ==
    [b EXCEPT !.comments = Append(@, [task_id |-> task_id, comment |-> comment]),
              !.log = Append(@, [Call("add_comment", task_id, 0) EXCEPT
                                    !.description = comment])]

\* DELETE /tasks/{id}/labels/{label_id}: the label leaves the task, the label
\* itself stays on the board
remove_label_from_task(b, task_id, label_id) ==
    LET kept(ls) == SelectSeq(ls, LAMBDA l : l.id /= label_id)
    IN  [b EXCEPT !.tasks = [i \in DOMAIN b.tasks |->
                                IF b.tasks[i].id = task_id
                                THEN [b.tasks[i] EXCEPT !.labels = kept(@)]
                                ELSE b.tasks[i]],
                  !.log = Append(@, Call("remove_label_from_task", task_id, label_id))]

\* the labels of the board with the ids of label_ids, in the order of label_ids,
\* each once
RECURSIVE labels_by_id(_, _, _)
labels_by_id(b, label_ids, seen) ==
    IF label_ids = <<>> THEN <<>>
    ELSE (IF Head(label_ids) \in seen THEN <<>>
          ELSE SelectSeq(b.labels, LAMBDA l : l.id = Head(label_ids)))
         \o labels_by_id(b, Tail(label_ids), seen \cup {Head(label_ids)})

\* POST /tasks/{id}/labels/bulk: the task's labels become the labels sent
replace_task_labels(b, task_id, label_ids) ==
    [b EXCEPT !.tasks = [i \in DOMAIN b.tasks |->
                            IF b.tasks[i].id = task_id
                            THEN [b.tasks[i] EXCEPT
                                    !.labels = labels_by_id(b, label_ids, {})]
                            ELSE b.tasks[i]],
              !.log = Append(@, Call("replace_task_labels", task_id, 0))]

\* is_managed always true: the description is merged whatever it holds
is_managed_always(desc) == TRUE

is_managed(desc) == contains(desc, MANAGED_MARKER)

\* [label.strip() for label in raw.split(',') if label.strip()]
parse_labels(raw) ==
    LET parts == split(raw, <<",">>)
    IN  nonblank([i \in DOMAIN parts |-> strip(parts[i])])

\* the loop of ensure_labels_for_task with every label attached, present or not
RECURSIVE attach_every_label(_, _, _, _)
attach_every_label(b, task_id, names, existing) ==
    IF names = <<>> THEN b
    ELSE LET e == ensure_label_id(b, Head(names))
         IN  attach_every_label(add_label_to_task(e.board, task_id, e.id), task_id,
                                Tail(names), existing)

\* for label in labels: ... of ensure_labels_for_task
RECURSIVE ensure_labels_loop(_, _, _, _)
ensure_labels_loop(b, task_id, names, existing) ==
    IF names = <<>> THEN b
    ELSE IF lower(strip(Head(names))) \in existing
    THEN ensure_labels_loop(b, task_id, Tail(names), existing)
    ELSE LET e == ensure_label_id(b, Head(names))
         IN  ensure_labels_loop(add_label_to_task(e.board, task_id, e.id), task_id,
                                Tail(names), existing \cup {lower(strip(Head(names)))})

ensure_labels_for_task(b, task_id, names) ==
    LET task == get_task(b, task_id)
    IN  IF names = <<>> \/ task = <<>> THEN b
        ELSE ensure_labels_loop(b, task_id, names,
                 {lower(strip(task[1].labels[k].title)) : k \in DOMAIN task[1].labels})

(***************************************************************************)
(* Command layer                                                           *)
(***************************************************************************)
\* rendered.replace("{{" + key + "}}", value) for every key: a placeholder
\* is one symbol of the template
RECURSIVE render_template(_, _)
render_template(template, values) ==
    IF template = <<>> THEN <<>>
    ELSE (IF Head(template) \in DOMAIN values THEN values[Head(template)]
          ELSE <<Head(template)>>)
         \o render_template(Tail(template), values)

\* assets/task_description_template.md
task_description_template ==
    MANAGED_MARKER
    \o <<"\n", "{{goal_html}}", "\n", "{{requirements_html}}", "\n", "{{solution_html}}",
         "\n", "{{definition_of_done_html}}", "\n", "{{pr_section_html}}", "\n">>
    \o STATUS_START
    \o <<"\n", "<p><strong>Sammanfattning:</strong></p>", "\n", "{{summary_html}}", "\n",
         "<p><strong>Progress:</strong> ", "{{progress}}", "</p>", "\n",
         "<p><strong>Senast uppdaterad:</strong> ", "{{date}}", "</p>", "\n">>
    \o STATUS_END
    \o <<"\n">>

\* assets/progress_comment_template.md
progress_comment_template ==
    <<"{{summary_html}}", "\n", "{{completed_html}}", "\n", "{{in_progress_html}}", "\n",
      "{{next_steps_html}}", "\n", "{{blockers_html}}", "\n",
      "{{done}}", "/", "{{total}}", " ", "{{percent}}", "%">>

\* the description as supplied, the marker never prepended
ensure_task_description_as_given(args) ==
    IF args.description /= <<>> THEN args.description
    ELSE MANAGED_MARKER \o <<"\n">>

ensure_task_description(args) ==
    IF args.description /= <<>>
    THEN IF contains(args.description, MANAGED_MARKER) THEN args.description
         ELSE MANAGED_MARKER \o <<"\n", "\n">> \o args.description
    ELSE LET pr_label == IF args.pr_url /= <<>> THEN args.pr_url
                         ELSE <<"P", "R", " ", "#">> \o args.pr_number
             pr_section_html ==
                IF args.pr_url /= <<>> \/ args.pr_number /= <<>>
                THEN <<"<h3>PR</h3>", "\n">> \o format_html_block(pr_label)
                ELSE <<>>
         IN  render_template(task_description_template,
                [k \in {"{{goal_html}}", "{{requirements_html}}", "{{solution_html}}",
                        "{{definition_of_done_html}}", "{{pr_section_html}}",
                        "{{summary_html}}", "{{progress}}", "{{date}}"} |->
                    CASE k = "{{goal_html}}" -> format_html_block(normalize_field(args.goal))
                      [] k = "{{requirements_html}}" ->
                            format_html_block(normalize_field(args.requirements))
                      [] k = "{{solution_html}}" ->
                            format_html_block(normalize_field(args.solution))
                      [] k = "{{definition_of_done_html}}" ->
                            format_html_block(normalize_field(args.definition))
                      [] k = "{{pr_section_html}}" -> pr_section_html
                      [] k = "{{summary_html}}" ->
                            escape_html(<<"E", "j", " ", "p", "(U+00E5)", "b", "(U+00F6)",
                                          "r", "j", "a", "t">>)
                      [] k = "{{progress}}" -> <<"0", "/", "0", " ", "(", "0", "%", ")">>
                      [] k = "{{date}}" -> isoformat(today)])

\* the title without the branch marker appended
ensure_task_title_no_marker(args) ==
    IF args.pr_number /= <<>> /\ ~startswith(args.title, <<"[", "P", "R", "-">>)
    THEN <<"[", "P", "R", "-">> \o args.pr_number \o <<"]", " ">> \o args.title
    ELSE args.title

ensure_task_title(args) ==
    LET title == IF args.pr_number /= <<>> /\ ~startswith(args.title, <<"[", "P", "R", "-">>)
                 THEN <<"[", "P", "R", "-">> \o args.pr_number \o <<"]", " ">> \o args.title
                 ELSE args.title
    IN  IF args.branch /= <<>>
        THEN title \o <<" ">> \o branch_marker(args.branch)
        ELSE title

Died(b) == [board |-> b, action |-> "error", task_id |-> 0]

\* the project and the view named by the invocation exist
cmd_ensure_task(b, args) ==
    IF args.task_id /= 0
    THEN IF get_task(b, args.task_id) = <<>> THEN Died(b)
         ELSE [board |-> b, action |-> "found", task_id |-> args.task_id]
    ELSE
    LET existing == find_task_by_matching(list_tasks_for_view(b), args.pr_number,
                                          args.branch, args.title)
        bucket_id == find_bucket_id(IF args.bucket /= <<>> THEN args.bucket
                                    ELSE DEFAULT_BUCKET)
        \* the calls that follow create_task, c its answer
        after_create(c) ==
            LET task_id == c.created.id
                e == ensure_label_id(c.board, pr_label_name(args.pr_number))
                b1 == IF args.pr_number /= <<>>
                      THEN add_label_to_task(e.board, task_id, e.id)
                      ELSE c.board
                b2 == IF args.pr_url /= <<>>
                      THEN add_comment(b1, task_id, <<"P", "R", ":", " ">> \o args.pr_url)
                      ELSE b1
                b3 == IF args.labels /= <<>>
                      THEN ensure_labels_for_task(b2, task_id, parse_labels(args.labels))
                      ELSE b2
            IN  [board |-> b3, action |-> "created", task_id |-> task_id]
    IN  IF project_and_view(args) = 0 THEN Died(b)
        ELSE IF existing /= <<>>
        THEN [board |-> b, action |-> "found", task_id |-> existing[1].id]
        ELSE IF bucket_id = 0 THEN Died(b)
        ELSE after_create(create_task(b, [title |-> ensure_task_title(args),
                                          description |-> ensure_task_description(args),
                                          bucket_id |-> bucket_id]))

Gcd(a, b) == CHOOSE g \in 1..a : a % g = 0 /\ b % g = 0
                                 /\ \A h \in 1..a : (a % h = 0 /\ b % h = 0) => h <= g

\* done / total as it is, without max(0.0, min(1.0, ratio))
progress_ratio_unclamped(done, total) ==
    IF total > 0 THEN <<done, total>> ELSE <<0, 1>>

\* ratio = done / total clamped to 0.0 .. 1.0, as a fraction in lowest terms
progress_ratio(done, total) ==
    IF total > 0 /\ done > 0
    THEN IF done >= total THEN <<1, 1>>
         ELSE <<done \div Gcd(done, total), total \div Gcd(done, total)>>
    ELSE <<0, 1>>

\* round(ratio * 100): halves go to the even neighbour
progress_percent(ratio) ==
    LET q == (100 * ratio[1]) \div ratio[2]
        r == (100 * ratio[1]) % ratio[2]
    IN  IF 2 * r < ratio[2] THEN q
        ELSE IF 2 * r > ratio[2] THEN q + 1
        ELSE IF q % 2 = 0 THEN q ELSE q + 1

\* str(n)
str(n) == <<ToString(n)>>

\* the task of the invocation: <<>> is "Task not found" or a lookup that died
progress_task(b, args) ==
    IF args.task_id /= 0 THEN get_task(b, args.task_id)
    ELSE IF project_and_view(args) = 0 THEN <<>>
    ELSE find_task_by_matching(list_tasks_for_view(b), args.pr_number,
                               args.branch, args.title)

progress_comment(args) ==
    render_template(progress_comment_template,
        [k \in {"{{summary_html}}", "{{completed_html}}", "{{in_progress_html}}",
                "{{next_steps_html}}", "{{blockers_html}}", "{{done}}",
                "{{total}}", "{{percent}}"} |->
            CASE k = "{{summary_html}}" ->
                    format_html_block(normalize_field(args.summary))
              [] k = "{{completed_html}}" ->
                    format_html_block(normalize_field(args.completed))
              [] k = "{{in_progress_html}}" ->
                    format_html_block(normalize_field(args.in_progress))
              [] k = "{{next_steps_html}}" ->
                    format_html_block(normalize_field(args.next_steps))
              [] k = "{{blockers_html}}" ->
                    format_html_block(normalize_field(args.blockers))
              [] k = "{{done}}" -> str(args.done)
              [] k = "{{total}}" -> str(args.total)
              [] k = "{{percent}}" ->
                    str(progress_percent(progress_ratio(args.done, args.total)))])

\* f"{done}/{total} ({percent}%)" if total > 0 else the dash
progress_text(args) ==
    IF args.total > 0
    THEN str(args.done) \o <<"/">> \o str(args.total) \o <<" ", "(">>
         \o str(progress_percent(progress_ratio(args.done, args.total))) \o <<"%", ")">>
    ELSE <<"(U+2013)">>

\* the task sent back: the one fetched with percent_done and, when managed,
\* the status block set; summary_html is format_html_block of the summary
progress_applied(fetched, args, summary_html) ==
    [fetched EXCEPT
        !.percent_done = progress_ratio(args.done, args.total),
        !.description =
            IF is_managed(@)
            THEN update_status_in_description(@, summary_html, progress_text(args))
            ELSE @]

progress_updated(fetched, args) ==
    progress_applied(fetched, args, format_html_block(normalize_field(args.summary)))

cmd_progress_update(b, args) ==
    LET task == progress_task(b, args)
        \* the calls that follow add_comment, b1 the board it leaves
        after_comment(b1) ==
            LET updated == progress_updated(get_task(b1, task[1].id)[1], args)
            IN  [board |-> update_task(b1, updated), action |-> "progress-updated",
                 task_id |-> task[1].id,
                 percent |-> progress_percent(progress_ratio(args.done, args.total)),
                 sent |-> <<updated>>]
    IN  IF task = <<>>
        THEN [board |-> b, action |-> "error", task_id |-> 0, percent |-> 0, sent |-> <<>>]
        ELSE after_comment(add_comment(b, task[1].id, progress_comment(args)))

\* link-pr with the label created and attached before the task is looked for
cmd_link_pr_label_first(b, args) ==
    LET e == ensure_label_id(b, pr_label_name(args.pr_number))
        task == IF args.task_id /= 0 THEN get_task(b, args.task_id)
                ELSE find_task_by_matching(list_tasks_for_view(b), args.pr_number,
                                           args.branch, args.title)
    IN  IF (args.task_id = 0 /\ project_and_view(args) = 0) \/ task = <<>>
        THEN Died(IF args.pr_number /= <<>> THEN e.board ELSE b)
        ELSE [board |-> add_label_to_task(e.board, task[1].id, e.id),
              action |-> "linked-pr", task_id |-> task[1].id]

cmd_link_pr(b, args) ==
    LET task == IF args.task_id /= 0 THEN get_task(b, args.task_id)
                ELSE find_task_by_matching(list_tasks_for_view(b), args.pr_number,
                                           args.branch, args.title)
        e == ensure_label_id(b, pr_label_name(args.pr_number))
        b1 == IF args.pr_number /= <<>>
              THEN add_label_to_task(e.board, task[1].id, e.id)
              ELSE b
        label == IF args.pr_url /= <<>> THEN args.pr_url
                 ELSE <<"P", "R", " ", "#">> \o args.pr_number
        b2 == IF args.pr_url /= <<>> \/ args.pr_number /= <<>>
              THEN add_comment(b1, task[1].id, <<"P", "R", ":", " ">> \o label)
              ELSE b1
    IN  IF (args.task_id = 0 /\ project_and_view(args) = 0) \/ task = <<>>
        THEN Died(b)
        ELSE [board |-> b2, action |-> "linked-pr", task_id |-> task[1].id]

\* move-task with the bucket looked up after the task has been updated
cmd_move_task_bucket_last(b, args) ==
    LET task == IF args.task_id /= 0 THEN get_task(b, args.task_id)
                ELSE find_task_by_matching(list_tasks_for_view(b), args.pr_number,
                                           args.branch, args.title)
        bucket_id == find_bucket_id(args.to)
    IN  IF task = <<>> THEN Died(b)
        ELSE IF bucket_id = 0
        THEN Died(update_task(b, [get_task(b, task[1].id)[1] EXCEPT !.bucket_id = 0]))
        ELSE [board |-> update_task(b, [get_task(b, task[1].id)[1] EXCEPT
                                            !.bucket_id = bucket_id]),
              action |-> "moved", task_id |-> task[1].id]

\* a task fetched by id carries its project_id: find_project_id is then skipped
cmd_move_task(b, args) ==
    LET given == IF args.task_id /= 0 THEN get_task(b, args.task_id) ELSE <<>>
        view_id == IF args.task_id /= 0 THEN view_of(args) ELSE project_and_view(args)
        task == IF args.task_id /= 0 THEN given
                ELSE find_task_by_matching(list_tasks_for_view(b), args.pr_number,
                                           args.branch, args.title)
        bucket_id == find_bucket_id(args.to)
        updated == [get_task(b, task[1].id)[1] EXCEPT !.bucket_id = bucket_id]
    IN  IF args.task_id /= 0 /\ given = <<>> THEN Died(b)
        ELSE IF view_id = 0 THEN Died(b)
        ELSE IF task = <<>> THEN Died(b)
        ELSE IF bucket_id = 0 THEN Died(b)
        ELSE [board |-> update_task(b, updated), action |-> "moved",
              task_id |-> task[1].id]

\* existing.get(key) of cmd_labels: a later label of the task replaces an
\* earlier one of the same key; 0 is None
existing_label_id(task_labels, key) ==
    LET hits == {i \in DOMAIN task_labels : label_key(task_labels[i].title) = key}
    IN  IF hits = {} THEN 0
        ELSE task_labels[CHOOSE i \in hits : \A j \in hits : j <= i].id

\* [label for label in parse_labels(args.add) if label.strip().lower() not in existing]
RECURSIVE labels_to_add(_, _)
labels_to_add(names, task_labels) ==
    IF names = <<>> THEN <<>>
    ELSE (IF existing_label_id(task_labels, label_key(Head(names))) = 0
          THEN <<Head(names)>> ELSE <<>>)
         \o labels_to_add(Tail(names), task_labels)

\* labels --remove deleting the labels from the board as well
remove_labels_deleting(b, task_id, names, task_labels) ==
    LET gone == {existing_label_id(task_labels, label_key(names[i])) : i \in DOMAIN names}
    IN  [b EXCEPT !.tasks = [i \in DOMAIN b.tasks |->
                                IF b.tasks[i].id = task_id
                                THEN [b.tasks[i] EXCEPT
                                        !.labels = SelectSeq(@, LAMBDA l : l.id \notin gone)]
                                ELSE b.tasks[i]],
                  !.labels = SelectSeq(@, LAMBDA l : l.id \notin gone)]

\* for label in parse_labels(args.remove): ...
RECURSIVE remove_labels_loop(_, _, _, _)
remove_labels_loop(b, task_id, names, task_labels) ==
    IF names = <<>> THEN b
    ELSE remove_labels_loop(
            IF existing_label_id(task_labels, label_key(Head(names))) /= 0
            THEN remove_label_from_task(b, task_id,
                     existing_label_id(task_labels, label_key(Head(names))))
            ELSE b,
            task_id, Tail(names), task_labels)

\* [ensure_label_id(base_url, token, label) for label in parse_labels(args.replace)]
RECURSIVE ensure_label_ids(_, _)
ensure_label_ids(b, names) ==
    IF names = <<>> THEN [board |-> b, ids |-> <<>>]
    ELSE LET e == ensure_label_id(b, Head(names))
             after_first(first) ==
                LET rest == ensure_label_ids(first.board, Tail(names))
                IN  [board |-> rest.board, ids |-> <<first.id>> \o rest.ids]
         IN  after_first(e)

cmd_labels(b, args) ==
    LET task == get_task(b, args.task_id)
        b1 == IF args.add /= <<>>
              THEN ensure_labels_for_task(b, args.task_id,
                       labels_to_add(parse_labels(args.add), task[1].labels))
              ELSE b
        b2 == IF args.remove /= <<>>
              THEN remove_labels_loop(b1, args.task_id, parse_labels(args.remove),
                                      task[1].labels)
              ELSE b1
        replaced(e) == replace_task_labels(e.board, args.task_id, e.ids)
    IN  IF task = <<>> THEN Died(b)
        ELSE [board |-> IF args.replace /= <<>>
                        THEN replaced(ensure_label_ids(b2, parse_labels(args.replace)))
                        ELSE b2,
              action |-> "labels-updated", task_id |-> args.task_id]

(***************************************************************************)
(* Merge: any description, re-synchronized with any summary and progress   *)
(***************************************************************************)
DescSymbols == {"a", " ", "\n"} \cup {STATUS_START[1], STATUS_END[1]}

Descriptions == UNION {[1..n -> DescSymbols] : n \in 0..MaxDescLen}

\* rendered summaries (a paragraph each) and progress texts
Summaries == {<<"<p>", "s", "</p>">>, <<"<p>", "t", "</p>">>}
Progresses == {<<"1", "/", "2">>, <<"<", "&">>}

MergeIdle ==
    /\ description = <<>>
    /\ mergeIn = <<>>
    /\ merges = 0

ResolverIdle ==
    /\ hint = [pr_number |-> <<>>, branch |-> <<>>, title |-> <<>>]
    /\ result = <<>>
    /\ resolved = FALSE

RenderIdle ==
    /\ source = <<>>
    /\ rendered = <<>>

RaceIdle ==
    /\ procs = <<>>
    /\ writes = <<>>

PageIdle == pager = <<>>

HookIdle == hook = <<>>

ConfigIdle ==
    /\ environ = <<>>
    /\ zshrc_loaded = FALSE
    /\ cfg = <<>>

BoardIdle ==
    /\ labels = <<>>
    /\ buckets = <<>>
    /\ comments = <<>>
    /\ steps = 0
    /\ out = NoOutput
    /\ lastUpdate = <<>>
    /\ streak = NoStreak
    /\ lcall = <<>>
    /\ calls = <<>>

MergeInit ==
    /\ description \in Descriptions
    /\ mergeIn = <<>>
    /\ merges = 0
    /\ today = 1
    /\ tasks = <<>>
    /\ ResolverIdle
    /\ BoardIdle
    /\ RenderIdle
    /\ RaceIdle
    /\ ConfigIdle
    /\ PageIdle
    /\ HookIdle

Merge(summary_html, progress) ==
    /\ merges < MaxMerges
    /\ description' = update_status_in_description(description, summary_html, progress)
    /\ mergeIn' = <<[description |-> description, summary_html |-> summary_html,
                     progress |-> progress,
                     block |-> status_block(summary_html, progress)]>>
    /\ merges' = merges + 1
    /\ UNCHANGED <<today, tasks, resolverVars, boardVars,
                   renderVars, raceVars, configVars, pageVars, hookVars>>

NextDay ==
    /\ today < MaxDay
    /\ today' = today + 1
    /\ UNCHANGED <<mergeVars, tasks, resolverVars, boardVars,
                   renderVars, raceVars, configVars, pageVars, hookVars>>

MergeNext ==
    \/ \E s \in Summaries, p \in Progresses : Merge(s, p)
    \/ NextDay

SpecMerge == MergeInit /\ [][MergeNext]_vars

(***************************************************************************)
(* Resolver: any task list, any match hint                                 *)
(***************************************************************************)
L_pr7 == Label(1, <<"p", "r", "-", "7">>)
L_PR7 == Label(2, <<" ", "P", "R", "-", "7">>)
L_pr71 == Label(3, <<"p", "r", "-", "7", "1">>)
L_bug == Label(4, <<"b", "u", "g">>)

T_branch_b == <<"[", "b", "r", "a", "n", "c", "h", ":", "b", "]">>

\* what a task of the board may look like: title, description, labels
TaskShapes ==
    { [title |-> <<"[", "P", "R", "-", "7", "]", " ", "F">>, description |-> <<>>,
       labels |-> <<>>],
      [title |-> <<"o">>, description |-> <<>>, labels |-> <<L_pr7>>],
      [title |-> <<"o">>, description |-> <<"d">>, labels |-> <<L_bug, L_PR7>>],
      [title |-> <<" ", "f", " ">>, description |-> <<>>, labels |-> <<>>],
      [title |-> <<"F">>, description |-> <<>>, labels |-> <<L_pr71>>],
      [title |-> <<"x", " ">> \o T_branch_b, description |-> <<>>, labels |-> <<>>],
      [title |-> <<"o">>, description |-> <<"d", "\n">> \o T_branch_b, labels |-> <<>>],
      [title |-> <<"[", "P", "R", "-", "7", "1", "]", " ", "F">>, description |-> <<>>,
       labels |-> <<L_bug>>] }

Task(id, shape) ==
    [id |-> id, title |-> shape.title, description |-> shape.description,
     bucket_id |-> 1, labels |-> shape.labels, percent_done |-> <<0, 1>>]

\* the lists a view may return: task ids are distinct
TaskLists ==
    UNION { { [i \in 1..n |-> Task(i, f[i])] : f \in [1..n -> TaskShapes] } :
            n \in 0..MaxTasks }

Hints ==
    [pr_number : {<<>>, <<"7">>, <<"7", "1">>},
     branch : {<<>>, <<"b">>},
     title : {<<>>, <<"F">>, <<"f", " ">>}]

ResolverInit ==
    /\ tasks \in TaskLists
    /\ hint \in Hints
    /\ result = <<>>
    /\ resolved = FALSE
    /\ today = 1
    /\ MergeIdle
    /\ BoardIdle
    /\ RenderIdle
    /\ RaceIdle
    /\ ConfigIdle
    /\ PageIdle
    /\ HookIdle

Resolve ==
    /\ ~resolved
    /\ result' = find_task_by_matching(tasks, hint.pr_number, hint.branch, hint.title)
    /\ resolved' = TRUE
    /\ UNCHANGED <<tasks, hint, today, mergeVars, pageVars, hookVars, boardVars,
                   renderVars, raceVars, configVars>>

ResolverNext == Resolve

SpecResolver == ResolverInit /\ [][ResolverNext]_vars

(***************************************************************************)
(* Board: invocations of the commands, one after another                   *)
(***************************************************************************)
T_F == <<"F">>
T_PR9_x == <<"[", "P", "R", "-", "9", "]", " ", "x">>
T_doing == <<"d", "o", "i", "n", "g">>

D_managed ==
    MANAGED_MARKER \o <<"\n", "h", "\n">> \o STATUS_START \o <<"\n", "o", "\n">>
    \o STATUS_END \o <<"\n", "t">>

TheBuckets ==
    << [id |-> 1, title |-> DEFAULT_BUCKET],
       [id |-> 2, title |-> <<"D", "o", "i", "n", "g">>] >>

\* the boards the invocations start from: tasks and labels
InitialBoards ==
    { [tasks |-> <<>>, labels |-> <<>>],
      [tasks |-> << [id |-> 1, title |-> <<"o">>, description |-> <<"d">>,
                     bucket_id |-> 1, labels |-> <<>>, percent_done |-> <<0, 1>>],
                    [id |-> 2, title |-> <<"m">>, description |-> D_managed,
                     bucket_id |-> 2, labels |-> <<Label(1, <<"b", "u", "g">>)>>,
                     percent_done |-> <<0, 1>>] >>,
       labels |-> <<Label(1, <<"b", "u", "g">>)>>],
      [tasks |-> << [id |-> 1, title |-> <<"x", " ">> \o T_branch_b,
                     description |-> <<"d">>, bucket_id |-> 1, labels |-> <<>>,
                     percent_done |-> <<0, 1>>] >>,
       labels |-> <<>>] }

EnsureArgs(title, pr_number, branch) ==
    [task_id |-> 0, title |-> title, pr_number |-> pr_number, branch |-> branch,
     description |-> <<>>, goal |-> <<>>, requirements |-> <<>>, solution |-> <<>>,
     definition |-> <<>>, bucket |-> <<>>, pr_url |-> <<>>, labels |-> <<>>,
     project |-> <<>>, view |-> <<>>]

\* ensure-task invocations
EnsureTaskArgs ==
    { EnsureArgs(T_F, <<>>, <<>>),
      EnsureArgs(T_F, <<"7">>, <<>>),
      EnsureArgs(T_PR9_x, <<"7">>, <<>>),
      EnsureArgs(T_F, <<>>, <<"b">>),
      [EnsureArgs(<<" ", "f">>, <<"7">>, <<"b">>) EXCEPT
            !.labels = <<"b", "u", "g", ",", " ", "B", "u", "g", ",">>,
            !.pr_url = <<"u">>, !.goal = <<"-", " ", "g">>],
      [EnsureArgs(<<"G">>, <<>>, <<>>) EXCEPT !.description = <<"d">>, !.bucket = T_doing],
      [EnsureArgs(<<"H">>, <<>>, <<>>) EXCEPT !.bucket = <<"n", "o">>],
      [EnsureArgs(T_F, <<>>, <<>>) EXCEPT !.task_id = 1] }

ProgressArgs(task_id, done, total, summary) ==
    [task_id |-> task_id, pr_number |-> <<>>, branch |-> <<>>, title |-> <<>>,
     done |-> done, total |-> total, summary |-> summary, completed |-> <<>>,
     in_progress |-> <<>>, next_steps |-> <<>>, blockers |-> <<>>,
     project |-> <<>>, view |-> <<>>]

\* progress-update invocations
ProgressUpdateArgs ==
    { ProgressArgs(1, 1, 2, <<"s">>),
      ProgressArgs(2, 1, 3, <<"-", " ", "a", "\n", "-", " ", "<">>),
      ProgressArgs(2, 0, 0, <<>>),
      [ProgressArgs(0, 3, 2, <<"s">>) EXCEPT !.title = T_F],
      [ProgressArgs(0, 1, 8, <<>>) EXCEPT !.pr_number = <<"7">>] }

BoardInit ==
    /\ \E b \in InitialBoards : tasks = b.tasks /\ labels = b.labels
    /\ buckets = TheBuckets
    /\ comments = <<>>
    /\ steps = 0
    /\ out = NoOutput
    /\ lastUpdate = <<>>
    /\ streak = NoStreak
    /\ lcall = <<>>
    /\ calls = <<>>
    /\ today = 1
    /\ MergeIdle
    /\ ResolverIdle
    /\ RenderIdle
    /\ RaceIdle
    /\ ConfigIdle
    /\ PageIdle
    /\ HookIdle

EnsureTask(args) ==
    /\ steps < MaxSteps
    /\ \E r \in {cmd_ensure_task(Board, args)} :
           /\ tasks' = r.board.tasks
           /\ labels' = r.board.labels
           /\ comments' = r.board.comments
           /\ calls' = r.board.log
           /\ out' = [cmd |-> "ensure-task", args |-> args, action |-> r.action,
                      task_id |-> r.task_id, percent |-> 0]
           /\ streak' = IF streak.n > 0 /\ out.cmd = "ensure-task" /\ out.args = args
                        THEN [streak EXCEPT !.n = @ + 1]
                        ELSE [n |-> 1, first |-> r.action, base |-> tasks]
    /\ lastUpdate' = <<>>
    /\ steps' = steps + 1
    /\ UNCHANGED <<buckets, lcall, today, mergeVars, pageVars, hookVars, resolverVars,
                   renderVars, raceVars, configVars>>

ProgressUpdate(args) ==
    /\ steps < MaxSteps
    /\ \E r \in {cmd_progress_update(Board, args)} :
           /\ tasks' = r.board.tasks
           /\ labels' = r.board.labels
           /\ comments' = r.board.comments
           /\ calls' = r.board.log
           /\ out' = [cmd |-> "progress-update", args |-> args, action |-> r.action,
                      task_id |-> r.task_id, percent |-> r.percent]
           /\ lastUpdate' = r.sent
    /\ streak' = NoStreak
    /\ steps' = steps + 1
    /\ UNCHANGED <<buckets, lcall, today, mergeVars, pageVars, hookVars, resolverVars,
                   renderVars, raceVars, configVars>>

BoardNext ==
    \/ \E args \in EnsureTaskArgs : EnsureTask(args)
    \/ \E args \in ProgressUpdateArgs : ProgressUpdate(args)

SpecBoard == BoardInit /\ [][BoardNext]_vars

(***************************************************************************)
(* Commands: invocations of the five commands, one after another           *)
(***************************************************************************)
MatchArgs(task_id, title, pr_number, branch) ==
    [task_id |-> task_id, title |-> title, pr_number |-> pr_number, branch |-> branch,
     pr_url |-> <<>>, to |-> <<>>, project |-> <<>>, view |-> <<>>]

\* ensure-task invocations: with and without --description, --bucket, --branch,
\* and with names of a project, a view and a bucket that do not exist
CmdEnsureArgs ==
    { EnsureArgs(T_F, <<"7">>, <<>>),
      EnsureArgs(<<"m">>, <<>>, <<>>),
      [EnsureArgs(T_F, <<"7">>, <<"b">>) EXCEPT !.description = <<"d">>,
                                                 !.bucket = T_doing],
      [EnsureArgs(<<"G">>, <<"8">>, <<>>) EXCEPT
            !.description = MANAGED_MARKER \o <<"d">>, !.labels = <<"b", "u", "g">>],
      [EnsureArgs(<<"H">>, <<"7">>, <<>>) EXCEPT !.bucket = <<"n", "o">>],
      [EnsureArgs(<<"H">>, <<>>, <<>>) EXCEPT !.project = <<"n", "o">>],
      [EnsureArgs(<<"m">>, <<>>, <<>>) EXCEPT !.bucket = <<"n", "o">>] }

CmdProgressArgs ==
    { ProgressArgs(1, 1, 2, <<"s">>),
      [ProgressArgs(0, 1, 2, <<"s">>) EXCEPT !.title = T_F],
      [ProgressArgs(0, 1, 2, <<"s">>) EXCEPT !.pr_number = <<"7">>, !.branch = <<"c">>],
      [ProgressArgs(0, 1, 2, <<"s">>) EXCEPT !.title = <<"m">>, !.view = <<"n", "o">>] }

LinkPrArgs ==
    { MatchArgs(0, <<>>, <<"7">>, <<>>),
      [MatchArgs(0, <<>>, <<"7">>, <<"b">>) EXCEPT !.pr_url = <<"u">>],
      [MatchArgs(0, <<"m">>, <<>>, <<>>) EXCEPT !.pr_url = <<"u">>],
      MatchArgs(2, <<>>, <<"9">>, <<>>),
      [MatchArgs(0, <<"m">>, <<>>, <<>>) EXCEPT !.project = <<"n", "o">>] }

MoveTaskArgs ==
    { [MatchArgs(0, <<"m">>, <<>>, <<>>) EXCEPT !.to = DEFAULT_BUCKET],
      [MatchArgs(0, <<>>, <<"7">>, <<>>) EXCEPT !.to = T_doing],
      [MatchArgs(1, <<>>, <<>>, <<>>) EXCEPT !.to = <<" ", "d", "o", "i", "n", "g">>],
      [MatchArgs(1, <<>>, <<>>, <<>>) EXCEPT !.to = <<"n", "o">>],
      [MatchArgs(0, <<"m">>, <<>>, <<>>) EXCEPT !.to = <<"n", "o">>],
      [MatchArgs(1, <<>>, <<>>, <<>>) EXCEPT !.to = T_doing, !.view = <<"n", "o">>] }

LabelsArgs ==
    { [task_id |-> 2, add |-> <<"f", "i", "x", ",", "B", "u", "g">>, remove |-> <<>>,
       replace |-> <<>>],
      [task_id |-> 2, add |-> <<>>, remove |-> <<" ", "B", "u", "g", ",", "x">>,
       replace |-> <<>>],
      [task_id |-> 2, add |-> <<>>, remove |-> <<>>, replace |-> <<"f", "i", "x">>],
      [task_id |-> 1, add |-> <<"b", "u", "g">>, remove |-> <<"b", "u", "g">>,
       replace |-> <<>>],
      [task_id |-> 5, add |-> <<"f", "i", "x">>, remove |-> <<>>, replace |-> <<>>] }

\* what every invocation of the Commands specification leaves as it was
CommandFrame ==
    /\ lastUpdate' = <<>>
    /\ streak' = NoStreak
    /\ steps' = steps + 1
    /\ UNCHANGED <<buckets, lcall, today, mergeVars, pageVars, hookVars, resolverVars,
                   renderVars, raceVars, configVars>>

CmdEnsureTask(args) ==
    /\ steps < MaxCmdSteps
    /\ \E r \in {cmd_ensure_task(Board, args)} :
           /\ tasks' = r.board.tasks
           /\ labels' = r.board.labels
           /\ comments' = r.board.comments
           /\ calls' = r.board.log
           /\ out' = [cmd |-> "ensure-task", args |-> args, action |-> r.action,
                      task_id |-> r.task_id, percent |-> 0]
    /\ CommandFrame

CmdProgressUpdate(args) ==
    /\ steps < MaxCmdSteps
    /\ \E r \in {cmd_progress_update(Board, args)} :
           /\ tasks' = r.board.tasks
           /\ labels' = r.board.labels
           /\ comments' = r.board.comments
           /\ calls' = r.board.log
           /\ out' = [cmd |-> "progress-update", args |-> args, action |-> r.action,
                      task_id |-> r.task_id, percent |-> r.percent]
    /\ CommandFrame

LinkPr(args) ==
    /\ steps < MaxCmdSteps
    /\ \E r \in {cmd_link_pr(Board, args)} :
           /\ tasks' = r.board.tasks
           /\ labels' = r.board.labels
           /\ comments' = r.board.comments
           /\ calls' = r.board.log
           /\ out' = [cmd |-> "link-pr", args |-> args, action |-> r.action,
                      task_id |-> r.task_id, percent |-> 0]
    /\ CommandFrame

MoveTask(args) ==
    /\ steps < MaxCmdSteps
    /\ \E r \in {cmd_move_task(Board, args)} :
           /\ tasks' = r.board.tasks
           /\ labels' = r.board.labels
           /\ comments' = r.board.comments
           /\ calls' = r.board.log
           /\ out' = [cmd |-> "move-task", args |-> args, action |-> r.action,
                      task_id |-> r.task_id, percent |-> 0]
    /\ CommandFrame

Labels(args) ==
    /\ steps < MaxCmdSteps
    /\ \E r \in {cmd_labels(Board, args)} :
           /\ tasks' = r.board.tasks
           /\ labels' = r.board.labels
           /\ comments' = r.board.comments
           /\ calls' = r.board.log
           /\ out' = [cmd |-> "labels", args |-> args, action |-> r.action,
                      task_id |-> r.task_id, percent |-> 0]
    /\ CommandFrame

CommandsNext ==
    \/ \E args \in CmdEnsureArgs : CmdEnsureTask(args)
    \/ \E args \in CmdProgressArgs : CmdProgressUpdate(args)
    \/ \E args \in LinkPrArgs : LinkPr(args)
    \/ \E args \in MoveTaskArgs : MoveTask(args)
    \/ \E args \in LabelsArgs : Labels(args)

SpecCommands == BoardInit /\ [][CommandsNext]_vars

(***************************************************************************)
(* Labels: calls of ensure_label_id and ensure_labels_for_task, one after  *)
(* another, on a board whose label titles are distinct.  The board holds   *)
(* either a few labels or more than one page of them.                      *)
(***************************************************************************)
N_bug == <<"b", "u", "g">>
N_Bug == <<"B", "u", "g">>
N_fix == <<"f", "i", "x">>
N_FIX == <<" ", "F", "I", "X">>

LabelNames == {N_bug, N_Bug, N_FIX}

NameLists == {<<N_bug>>, <<N_bug, N_Bug>>, <<N_fix, N_bug, N_FIX>>}

\* the titles of the labels that follow the filler labels of the board
ExtraTitles == {<<>>, <<N_Bug>>, <<N_fix, N_Bug>>}

\* n filler labels "l1", "l2", ... and then the extra ones: no two titles are
\* the same; a label's id is its place on the board
LabelBoard(n, extra) ==
    [i \in 1..(n + Len(extra)) |->
        Label(i, IF i <= n THEN <<"l", ToString(i)>> ELSE extra[i - n])]

LabelsInit ==
    /\ \E n \in {0, LabelsPerPage}, extra \in ExtraTitles, attached \in BOOLEAN :
          /\ labels = LabelBoard(n, extra)
          /\ tasks = << [id |-> 1, title |-> <<"o">>, description |-> <<"d">>,
                         bucket_id |-> 1,
                         labels |-> IF attached /\ extra /= <<>>
                                    THEN <<LabelBoard(n, extra)[n + Len(extra)]>>
                                    ELSE <<>>,
                         percent_done |-> <<0, 1>>] >>
    /\ buckets = TheBuckets
    /\ comments = <<>>
    /\ steps = 0
    /\ out = NoOutput
    /\ lastUpdate = <<>>
    /\ streak = NoStreak
    /\ lcall = <<>>
    /\ calls = <<>>
    /\ today = 1
    /\ MergeIdle
    /\ ResolverIdle
    /\ RenderIdle
    /\ RaceIdle
    /\ ConfigIdle
    /\ PageIdle
    /\ HookIdle

EnsureLabelId(label_name) ==
    /\ steps < MaxLabelSteps
    /\ \E e \in {ensure_label_id(Board, label_name)} :
          /\ labels' = e.board.labels
          /\ calls' = e.board.log
          /\ lcall' = <<[op |-> "ensure_label_id", task_id |-> 0, names |-> <<label_name>>,
                         id |-> e.id, board_labels |-> labels, task_labels |-> <<>>,
                         repeat |-> FALSE]>>
    /\ steps' = steps + 1
    /\ UNCHANGED <<tasks, buckets, comments, out, lastUpdate, streak, today,
                   mergeVars, pageVars, hookVars, resolverVars,
                   renderVars, raceVars, configVars>>

EnsureLabelsForTask(task_id, names) ==
    /\ steps < MaxLabelSteps
    /\ \E b2 \in {ensure_labels_for_task(Board, task_id, names)} :
          /\ tasks' = b2.tasks
          /\ labels' = b2.labels
          /\ calls' = b2.log
    /\ lcall' = <<[op |-> "ensure_labels_for_task", task_id |-> task_id, names |-> names,
                   id |-> 0, board_labels |-> labels,
                   task_labels |-> get_task(Board, task_id)[1].labels,
                   repeat |-> /\ lcall /= <<>>
                              /\ lcall[1].op = "ensure_labels_for_task"
                              /\ lcall[1].task_id = task_id
                              /\ lcall[1].names = names]>>
    /\ steps' = steps + 1
    /\ UNCHANGED <<buckets, comments, out, lastUpdate, streak, today,
                   mergeVars, pageVars, hookVars, resolverVars,
                   renderVars, raceVars, configVars>>

LabelsNext ==
    \/ \E label_name \in LabelNames : EnsureLabelId(label_name)
    \/ \E names \in NameLists : EnsureLabelsForTask(1, names)

SpecLabels == LabelsInit /\ [][LabelsNext]_vars

\* C1: after one or more merges of any description, the description holds
\* exactly one status block: one start-delimiter, one end-delimiter, the start
\* before the end.
C1_ExactlyOneStatusBlock ==
    merges >= 1 =>
        /\ count(description, STATUS_START) = 1
        /\ count(description, STATUS_END) = 1
        /\ find(description, STATUS_START) < find(description, STATUS_END)

\* C2: when the description held both delimiters, the merged description is
\* the text before the first start-delimiter, the fresh block and the whole
\* text after the first end-delimiter, joined by newlines, trimmed, with one
\* trailing newline: nothing outside the block is lost.
C2_OnlyBlockReplaced ==
    \A k \in DOMAIN mergeIn :
        LET d == mergeIn[k].description
            before == SubSeq(d, 1, find(d, STATUS_START) - 1)
            afterAll == SubSeq(d, find(d, STATUS_END) + Len(STATUS_END), Len(d))
        IN  (contains(d, STATUS_START) /\ contains(d, STATUS_END)) =>
                description =
                    strip(join(<<"\n">>, <<rstrip(before), mergeIn[k].block,
                                           lstrip(afterAll)>>)) \o <<"\n">>


(***************************************************************************)
(* The resolver's rules, stated on one task                                *)
(***************************************************************************)
HasPrLabel(t, pr_number) ==
    \E k \in DOMAIN t.labels :
        lower(strip(t.labels[k].title)) = <<"p", "r", "-">> \o lower(pr_number)

HasPrPrefix(t, pr_number) ==
    /\ Len(t.title) >= Len(pr_number) + 5
    /\ SubSeq(t.title, 1, 4) = <<"[", "P", "R", "-">>
    /\ SubSeq(t.title, 5, 4 + Len(pr_number)) = pr_number
    /\ t.title[5 + Len(pr_number)] = "]"

HasBranchMarker(t, branch) ==
    LET m == <<"[", "b", "r", "a", "n", "c", "h", ":">> \o branch \o <<"]">>
        In(text) == \E i \in 1..Len(text) :
                        i + Len(m) - 1 <= Len(text) /\ SubSeq(text, i, i + Len(m) - 1) = m
    IN  In(t.title) \/ In(t.description)

HasTitle(t, title) == lower(strip(t.title)) = lower(strip(title))

\* r is the task at the least place of list among those in the set ok, or
\* None when ok is empty
EarliestOf(list, r, ok) ==
    IF ok /= {}
    THEN \E i \in ok : r = <<list[i]>> /\ \A j \in 1..(i - 1) : j \notin ok
    ELSE r = <<>>

Where(list, h, rule) ==
    {i \in DOMAIN list :
        CASE rule = "label" -> h.pr_number /= <<>> /\ HasPrLabel(list[i], h.pr_number)
          [] rule = "prefix" -> h.pr_number /= <<>> /\ HasPrPrefix(list[i], h.pr_number)
          [] rule = "branch" -> h.branch /= <<>> /\ HasBranchMarker(list[i], h.branch)
          [] rule = "title" -> /\ h.title /= <<>> /\ h.pr_number = <<>> /\ h.branch = <<>>
                               /\ HasTitle(list[i], h.title)}

\* C4: with pr_number given, whenever some task of the list carries a label
\* titled pr-{pr_number} (trimmed, case-insensitive) the resolver returns a
\* task carrying such a label, also when a task whose title starts with
\* [PR-{pr_number}] comes earlier in the list.
C4_LabelBeforeTitlePrefix ==
    (resolved /\ hint.pr_number /= <<>>) =>
        ((\E i \in DOMAIN tasks : HasPrLabel(tasks[i], hint.pr_number)) =>
            (result /= <<>> /\ HasPrLabel(result[1], hint.pr_number)))

C4_Witness ==
    /\ resolved
    /\ hint.pr_number /= <<>>
    /\ \E i, j \in DOMAIN tasks :
        /\ i < j
        /\ HasPrPrefix(tasks[i], hint.pr_number)
        /\ ~HasPrLabel(tasks[i], hint.pr_number)
        /\ HasPrLabel(tasks[j], hint.pr_number)
        /\ result = <<tasks[j]>>

\* C5 (as claimed): with pr_number given and neither the label scan nor the
\* title-prefix scan matching, the resolver returns no match, whatever branch
\* is and whatever carries the branch marker.
C5_BranchOnlyWithoutPr ==
    (/\ resolved
     /\ hint.pr_number /= <<>>
     /\ \A i \in DOMAIN tasks : /\ ~HasPrLabel(tasks[i], hint.pr_number)
                                /\ ~HasPrPrefix(tasks[i], hint.pr_number))
        => result = <<>>

\* C5 (amended): the branch marker is consulted whenever branch is given and
\* the pr_number scans returned nothing, pr_number given or not: the result
\* is then the earliest task whose title or description holds
\* [branch:{branch}], and no match when pr_number is given without branch.
C5_BranchAfterPrScans ==
    (/\ resolved
     /\ \/ hint.pr_number = <<>>
        \/ \A i \in DOMAIN tasks : /\ ~HasPrLabel(tasks[i], hint.pr_number)
                                   /\ ~HasPrPrefix(tasks[i], hint.pr_number))
        => /\ hint.branch /= <<>> =>
                EarliestOf(tasks, result, Where(tasks, hint, "branch"))
           /\ (hint.branch = <<>> /\ hint.pr_number /= <<>>) => result = <<>>

C5_Witness ==
    /\ resolved
    /\ hint.pr_number /= <<>>
    /\ hint.branch /= <<>>
    /\ \A i \in DOMAIN tasks : /\ ~HasPrLabel(tasks[i], hint.pr_number)
                               /\ ~HasPrPrefix(tasks[i], hint.pr_number)
    /\ result /= <<>>
    /\ HasBranchMarker(result[1], hint.branch)

\* C6: with neither pr_number nor branch given, the resolver returns the
\* earliest task whose title equals the hint title after trimming and
\* lower-casing both; with pr_number or branch given, a task is returned only
\* for its pr label, its title prefix or its branch marker, never for its title.
C6_TitleOnlyWithoutOtherHints ==
    resolved =>
        /\ (hint.pr_number = <<>> /\ hint.branch = <<>> /\ hint.title /= <<>>) =>
                EarliestOf(tasks, result, Where(tasks, hint, "title"))
        /\ ((hint.pr_number /= <<>> \/ hint.branch /= <<>>) /\ result /= <<>>) =>
                \/ hint.pr_number /= <<>> /\ HasPrLabel(result[1], hint.pr_number)
                \/ hint.pr_number /= <<>> /\ HasPrPrefix(result[1], hint.pr_number)
                \/ hint.branch /= <<>> /\ HasBranchMarker(result[1], hint.branch)

C6_Witness ==
    /\ resolved
    /\ hint.pr_number = <<>> /\ hint.branch = <<>> /\ hint.title /= <<>>
    /\ result /= <<>>
    /\ result[1].title /= hint.title
    /\ \E i \in DOMAIN tasks : tasks[i].id < result[1].id /\ ~HasTitle(tasks[i], hint.title)

\* the rule that produced the match: the first of the four that applies to
\* the hint and that some task of the list satisfies
C7_ResultOk(list, h, r) ==
    /\ r = <<>> \/ \E i \in DOMAIN list : r = <<list[i]>>
    /\ (h.pr_number = <<>> /\ h.branch = <<>> /\ h.title = <<>>) => r = <<>>
    /\ r /= <<>> =>
          IF Where(list, h, "label") /= {} THEN EarliestOf(list, r, Where(list, h, "label"))
          ELSE IF Where(list, h, "prefix") /= {} THEN EarliestOf(list, r, Where(list, h, "prefix"))
          ELSE IF Where(list, h, "branch") /= {} THEN EarliestOf(list, r, Where(list, h, "branch"))
          ELSE EarliestOf(list, r, Where(list, h, "title"))

\* C7: the resolver's result is None or a task of the given list, the
\* earliest in list order satisfying the rule that produced the match; with
\* no pr_number, no branch and no title it is None; the list is unchanged.
C7_EarliestOfTheList ==
    [][(~resolved /\ resolved') => (tasks' = tasks /\ C7_ResultOk(tasks, hint, result'))]_vars

C7_Witness ==
    /\ resolved
    /\ result /= <<>>
    /\ \E i, j \in DOMAIN tasks :
        /\ i < j
        /\ result = <<tasks[i]>>
        /\ HasBranchMarker(tasks[i], hint.branch) /\ hint.branch /= <<>>
        /\ HasBranchMarker(tasks[j], hint.branch)

\* C3: from a board with no task matching the hints, identical ensure-task
\* invocations run one after another create one task in all: the first reports
\* "created", every later one "found" with the id of that task, and the board
\* holds one task more than before the first.
C3_NoMatchAtStart ==
    /\ streak.n >= 1
    /\ out.cmd = "ensure-task"
    /\ out.args.task_id = 0
    /\ find_task_by_matching(streak.base, out.args.pr_number, out.args.branch,
                             out.args.title) = <<>>
    /\ find_bucket_id(IF out.args.bucket /= <<>> THEN out.args.bucket
                      ELSE DEFAULT_BUCKET) /= 0

C8_UnmanagedDescriptionKept ==
    [][ (steps' = steps + 1 /\ out'.cmd = "progress-update"
                            /\ out'.action = "progress-updated") =>
            LET fetched == get_task(Board, out'.task_id)[1]
                sent == lastUpdate'[1]
                a == out'.args
                progress == IF a.total > 0
                            THEN str(a.done) \o <<"/">> \o str(a.total)
                                 \o <<" ", "(">> \o str(out'.percent) \o <<"%", ")">>
                            ELSE <<"(U+2013)">>
            IN  IF contains(fetched.description, MANAGED_MARKER)
                THEN sent = [fetched EXCEPT
                                !.percent_done = sent.percent_done,
                                !.description = update_status_in_description(
                                    fetched.description,
                                    format_html_block(normalize_field(a.summary)),
                                    progress)]
                ELSE sent = [fetched EXCEPT !.percent_done = sent.percent_done] ]_vars

C8_Witness ==
    /\ out.cmd = "progress-update"
    /\ out.action = "progress-updated"
    /\ lastUpdate /= <<>>
    /\ ~contains(lastUpdate[1].description, MANAGED_MARKER)
    /\ lastUpdate[1].percent_done = <<1, 2>>

\* C9: ensure_labels_for_task keeps the labels the task had, in place, adds
\* only labels whose trimmed lower-cased title was not on the task and was
\* requested, leaves each requested title on the task exactly once, and a
\* second identical call changes nothing.
C9_SetUnion ==
    (lcall /= <<>> /\ lcall[1].op = "ensure_labels_for_task") =>
        LET c == lcall[1]
            before == c.task_labels
            now == get_task(Board, c.task_id)[1].labels
            had == {label_key(before[i].title) : i \in DOMAIN before}
            requested == {label_key(c.names[i]) : i \in DOMAIN c.names}
        IN  /\ Len(now) >= Len(before)
            /\ SubSeq(now, 1, Len(before)) = before
            /\ \A i \in (Len(before) + 1)..Len(now) :
                    /\ label_key(now[i].title) \notin had
                    /\ label_key(now[i].title) \in requested
            /\ \A k \in requested :
                    Cardinality({i \in DOMAIN now : label_key(now[i].title) = k}) = 1
            /\ c.repeat => now = before

C9_Witness ==
    /\ lcall /= <<>>
    /\ lcall[1].op = "ensure_labels_for_task"
    /\ lcall[1].names = <<N_fix, N_bug, N_FIX>>
    /\ Len(lcall[1].task_labels) = 1
    /\ Len(get_task(Board, 1)[1].labels) = 2

\* C10: a call of ensure_label_id whose name equals, trimmed and without case,
\* the title of a label of the board returns that label's id and creates
\* nothing; no two labels of the board have titles equal in that way.
C10_NeverDuplicates ==
    /\ Cardinality({label_key(labels[i].title) : i \in DOMAIN labels}) = Len(labels)
    /\ (lcall /= <<>> /\ lcall[1].op = "ensure_label_id") =>
            \A i \in DOMAIN lcall[1].board_labels :
                label_key(lcall[1].board_labels[i].title) = label_key(lcall[1].names[1])
                    => /\ lcall[1].id = lcall[1].board_labels[i].id
                       /\ labels = lcall[1].board_labels

(***************************************************************************)
(* Renderer: _render_nested_list on any items, format_html_block on any    *)
(* text made of a few lines, _render_list's items on any indented lines    *)
(***************************************************************************)
ItemContents == {<<"a">>, <<"<", "b">>}

ItemLists ==
    UNION {[1..n -> [level : 0..2, content : ItemContents]] : n \in 1..MaxItems}

NestedInit ==
    /\ source \in ItemLists
    /\ rendered = <<>>
    /\ today = 1
    /\ tasks = <<>>
    /\ MergeIdle
    /\ ResolverIdle
    /\ BoardIdle
    /\ RaceIdle
    /\ ConfigIdle
    /\ PageIdle
    /\ HookIdle

RenderNested ==
    /\ rendered = <<>>
    /\ rendered' = <<_render_nested_list(source)>>
    /\ UNCHANGED <<source, today, tasks, mergeVars, pageVars, hookVars, resolverVars, boardVars,
                   raceVars, configVars>>

NestedNext == RenderNested

SpecNested == NestedInit /\ [][NestedNext]_vars

\* the lines a text is made of
LinePool ==
    { <<>>, <<" ">>, <<"a">>, <<"-", " ", "a">>, <<" ", " ", "*", " ", "<", "b", ">">>,
      <<"\t", "-", " ", "[", "X", "]", " ", "b">>, <<"a", "&", ">">>, <<"-">>,
      <<" ", " ", " ", " ", "-", "&">>, <<"(U+00A0)", "-", " ", "a">> }

Texts ==
    {<<>>} \cup UNION {{join(<<"\n">>, ls) : ls \in [1..n -> LinePool]} : n \in 1..MaxLines}

FormatInit ==
    /\ source \in Texts
    /\ rendered = <<>>
    /\ today = 1
    /\ tasks = <<>>
    /\ MergeIdle
    /\ ResolverIdle
    /\ BoardIdle
    /\ RaceIdle
    /\ ConfigIdle
    /\ PageIdle
    /\ HookIdle

Format ==
    /\ rendered = <<>>
    /\ rendered' = <<format_html_block(source)>>
    /\ UNCHANGED <<source, today, tasks, mergeVars, pageVars, hookVars, resolverVars, boardVars,
                   raceVars, configVars>>

FormatNext == Format

SpecFormat == FormatInit /\ [][FormatNext]_vars

\* leading whitespace of a list line
Indents ==
    { <<>>, <<" ">>, <<" ", " ">>, <<" ", " ", " ">>, <<" ", " ", " ", " ">>,
      <<" ", " ", " ", " ", " ", " ">>, <<"\t">>, <<" ", "\t">>, <<"\t", "\t">> }

ListLines == {ind \o <<"-", " ", "a", "\t">> : ind \in Indents}

LevelsInit ==
    /\ source \in UNION {[1..n -> ListLines] : n \in 1..MaxListLines}
    /\ rendered = <<>>
    /\ today = 1
    /\ tasks = <<>>
    /\ MergeIdle
    /\ ResolverIdle
    /\ BoardIdle
    /\ RaceIdle
    /\ ConfigIdle
    /\ PageIdle
    /\ HookIdle

ListItems ==
    /\ rendered = <<>>
    /\ rendered' = <<list_items(source)>>
    /\ UNCHANGED <<source, today, tasks, mergeVars, pageVars, hookVars, resolverVars, boardVars,
                   raceVars, configVars>>

LevelsNext == ListItems

SpecLevels == LevelsInit /\ [][LevelsNext]_vars

(***************************************************************************)
(* Race: two progress-update processes on one task, every request of one   *)
(* process between any two requests of the other                           *)
(***************************************************************************)
Procs == {1, 2}

RaceTasks ==
    << [id |-> 1, title |-> <<"o">>, description |-> <<"d">>,
        bucket_id |-> 1, labels |-> <<>>, percent_done |-> <<0, 1>>],
       [id |-> 2, title |-> <<"m">>, description |-> D_managed,
        bucket_id |-> 2, labels |-> <<>>, percent_done |-> <<0, 1>>] >>

RaceArgs ==
    { ProgressArgs(2, 1, 2, <<"s">>),
      ProgressArgs(2, 2, 2, <<"-", " ", "a">>),
      [ProgressArgs(0, 1, 3, <<>>) EXCEPT !.title = <<"m">>] }

\* a process at its start
RaceProc(args) ==
    [cmd |-> "progress-update", args |-> args, pc |-> "start", task_id |-> 0,
     fetched |-> <<>>, seen |-> 0]

RaceInit ==
    /\ tasks = RaceTasks
    /\ labels = <<>>
    /\ buckets = TheBuckets
    /\ comments = <<>>
    /\ steps = 0
    /\ out = NoOutput
    /\ lastUpdate = <<>>
    /\ streak = NoStreak
    /\ lcall = <<>>
    /\ calls = <<>>
    /\ today = 1
    /\ procs \in [Procs -> {RaceProc(args) : args \in RaceArgs}]
    /\ writes = <<>>
    /\ MergeIdle
    /\ ResolverIdle
    /\ RenderIdle
    /\ ConfigIdle
    /\ PageIdle
    /\ HookIdle

RaceFrame ==
    UNCHANGED <<labels, buckets, steps, out, lastUpdate, streak, lcall, today,
                mergeVars, pageVars, hookVars, resolverVars, renderVars, configVars>>

\* lines 549-570: the task looked up, die when there is none
RaceResolve(p) ==
    /\ procs[p].pc = "start"
    /\ \E task \in {progress_task(Board, procs[p].args)} :
            procs' = [procs EXCEPT ![p].pc = IF task = <<>> THEN "failed" ELSE "comment",
                                   ![p].task_id = IF task = <<>> THEN 0 ELSE task[1].id]
    /\ UNCHANGED <<tasks, comments, calls, writes>>
    /\ RaceFrame

\* line 596
RaceComment(p) ==
    /\ procs[p].pc = "comment"
    /\ \E b1 \in {add_comment(Board, procs[p].task_id, progress_comment(procs[p].args))} :
            /\ comments' = b1.comments
            /\ calls' = calls \o b1.log
    /\ procs' = [procs EXCEPT ![p].pc = "fetch"]
    /\ UNCHANGED <<tasks, writes>>
    /\ RaceFrame

\* line 598: the request fails when the task is not there
RaceFetch(p) ==
    /\ procs[p].pc = "fetch"
    /\ procs' = [procs EXCEPT ![p].pc = IF get_task(Board, procs[p].task_id) = <<>>
                                        THEN "failed" ELSE "write",
                              ![p].fetched = get_task(Board, procs[p].task_id),
                              ![p].seen = Len(writes)]
    /\ UNCHANGED <<tasks, comments, calls, writes>>
    /\ RaceFrame

\* lines 599-609
RaceWrite(p) ==
    /\ procs[p].pc = "write"
    /\ \E updated \in {progress_updated(procs[p].fetched[1], procs[p].args)} :
            /\ \E b1 \in {update_task(Board, updated)} :
                    /\ tasks' = b1.tasks
                    /\ calls' = calls \o b1.log
            /\ writes' = Append(writes, [proc |-> p, sent |-> updated])
    /\ procs' = [procs EXCEPT ![p].pc = "done"]
    /\ UNCHANGED comments
    /\ RaceFrame

RaceStep(p) == RaceResolve(p) \/ RaceComment(p) \/ RaceFetch(p) \/ RaceWrite(p)

RaceNext == \E p \in Procs : RaceStep(p)

SpecRace == RaceInit /\ [][RaceNext]_vars

\* weak fairness of RaceComment(p) and of RaceWrite(p) with ENABLED written
\* out: the step changes procs, and it can be taken exactly when the process
\* stands before it
RaceCommentFair(p) ==
    []<>(procs[p].pc /= "comment") \/ []<><<RaceComment(p)>>_vars

RaceWriteFair(p) ==
    []<>(procs[p].pc /= "write") \/ []<><<RaceWrite(p)>>_vars

\* each process is a running program: a request it is ready to make is made
SpecRaceFair ==
    /\ SpecRace
    /\ \A p \in Procs :
            /\ WF_vars(RaceResolve(p))
            /\ RaceCommentFair(p)
            /\ WF_vars(RaceFetch(p))
            /\ RaceWriteFair(p)

(***************************************************************************)
(* Move race: a move-task process and a progress-update process on one     *)
(* board, every request of one between any two requests of the other       *)
(***************************************************************************)
\* lines 656-686 of move-task: the task looked up and the bucket found;
\* <<>> when the invocation died on the way
move_target(b, args) ==
    LET given == IF args.task_id /= 0 THEN get_task(b, args.task_id) ELSE <<>>
        view_id == IF args.task_id /= 0 THEN view_of(args) ELSE project_and_view(args)
        task == IF args.task_id /= 0 THEN given
                ELSE find_task_by_matching(list_tasks_for_view(b), args.pr_number,
                                           args.branch, args.title)
        bucket_id == find_bucket_id(args.to)
    IN  IF args.task_id /= 0 /\ given = <<>> THEN <<>>
        ELSE IF view_id = 0 THEN <<>>
        ELSE IF task = <<>> THEN <<>>
        ELSE IF bucket_id = 0 THEN <<>>
        ELSE <<[task_id |-> task[1].id, bucket_id |-> bucket_id]>>

\* move-task invocations: the task of the progress-update by id and by title,
\* the other task, a bucket that is not there
MoveRaceArgs ==
    { [MatchArgs(2, <<>>, <<>>, <<>>) EXCEPT !.to = DEFAULT_BUCKET],
      [MatchArgs(0, <<"m">>, <<>>, <<>>) EXCEPT !.to = DEFAULT_BUCKET],
      [MatchArgs(1, <<>>, <<>>, <<>>) EXCEPT !.to = T_doing],
      [MatchArgs(2, <<>>, <<>>, <<>>) EXCEPT !.to = <<"n", "o">>] }

\* a move-task process at its start
MoveProc(args) ==
    [cmd |-> "move-task", args |-> args, pc |-> "start", task_id |-> 0,
     bucket_id |-> 0, fetched |-> <<>>, seen |-> 0]

\* process 1 moves a task, process 2 updates the progress of a task
MoveRaceInit ==
    /\ tasks = RaceTasks
    /\ labels = <<>>
    /\ buckets = TheBuckets
    /\ comments = <<>>
    /\ steps = 0
    /\ out = NoOutput
    /\ lastUpdate = <<>>
    /\ streak = NoStreak
    /\ lcall = <<>>
    /\ calls = <<>>
    /\ today = 1
    /\ \E m \in MoveRaceArgs : \E a \in RaceArgs :
            procs = <<MoveProc(m), RaceProc(a)>>
    /\ writes = <<>>
    /\ MergeIdle
    /\ ResolverIdle
    /\ RenderIdle
    /\ ConfigIdle
    /\ PageIdle
    /\ HookIdle

\* lines 656-686
MoveResolve(p) ==
    /\ procs[p].cmd = "move-task"
    /\ procs[p].pc = "start"
    /\ \E target \in {move_target(Board, procs[p].args)} :
            procs' = [procs EXCEPT
                        ![p].pc = IF target = <<>> THEN "failed" ELSE "fetch",
                        ![p].task_id = IF target = <<>> THEN 0 ELSE target[1].task_id,
                        ![p].bucket_id = IF target = <<>> THEN 0 ELSE target[1].bucket_id]
    /\ UNCHANGED <<tasks, comments, calls, writes>>
    /\ RaceFrame

\* line 688
MoveFetch(p) ==
    /\ procs[p].cmd = "move-task"
    /\ procs[p].pc = "fetch"
    /\ procs' = [procs EXCEPT ![p].pc = IF get_task(Board, procs[p].task_id) = <<>>
                                        THEN "failed" ELSE "write",
                              ![p].fetched = get_task(Board, procs[p].task_id),
                              ![p].seen = Len(writes)]
    /\ UNCHANGED <<tasks, comments, calls, writes>>
    /\ RaceFrame

\* lines 689-690
MoveWrite(p) ==
    /\ procs[p].cmd = "move-task"
    /\ procs[p].pc = "write"
    /\ \E updated \in {[procs[p].fetched[1] EXCEPT !.bucket_id = procs[p].bucket_id]} :
            /\ \E b1 \in {update_task(Board, updated)} :
                    /\ tasks' = b1.tasks
                    /\ calls' = calls \o b1.log
            /\ writes' = Append(writes, [proc |-> p, sent |-> updated])
    /\ procs' = [procs EXCEPT ![p].pc = "done"]
    /\ UNCHANGED comments
    /\ RaceFrame

\* the requests of the progress-update process
ProgressStep(p) ==
    /\ procs[p].cmd = "progress-update"
    /\ RaceStep(p)

MoveRaceNext ==
    \E p \in Procs : MoveResolve(p) \/ MoveFetch(p) \/ MoveWrite(p) \/ ProgressStep(p)

SpecMoveRace == MoveRaceInit /\ [][MoveRaceNext]_vars

(***************************************************************************)
(* Progress: one progress-update with --done and --total of either sign    *)
(***************************************************************************)
\* --done and --total: type=int, any sign
Counts == (0 - MaxCount) .. MaxCount

\* the invocation: a task by id, with or without a summary
CountArgs ==
    { ProgressArgs(task_id, done, total, summary) :
        task_id \in {1, 2}, done \in Counts, total \in Counts,
        summary \in {<<>>, <<"s">>} }

ProgressCounts(args) ==
    /\ steps = 0
    /\ ProgressUpdate(args)

ProgressNext == \E args \in CountArgs : ProgressCounts(args)

SpecProgress == BoardInit /\ [][ProgressNext]_vars

(***************************************************************************)
(* Stop hook: one run of typecheck-stop.py.  Its input is the JSON object  *)
(* on stdin and what git, the file system, the environment, uv and the     *)
(* type-check script answer; a text that is empty or absent is <<>>.       *)
(***************************************************************************)
max_errors == 15

INTRIC == "backend/src/intric/"

\* str.endswith
endswith(s, suffix) ==
    /\ Len(suffix) <= Len(s)
    /\ SubSeq(s, Len(s) - Len(suffix) + 1, Len(s)) = suffix

\* the names git printed, when it succeeded
git_names(answer) ==
    IF answer.returncode = 0 THEN split(strip(answer.stdout), <<"\n">>) ELSE <<>>

get_changed_python_files(diff, untracked) ==
    SelectSeq(git_names(diff) \o git_names(untracked),
              LAMBDA f : f /= <<>> /\ endswith(f, <<".py">>))

\* os.environ.get(name, "").lower() in ("1", "true")
env_flag(value) == lower(value) \in {<<"1">>, <<"t", "r", "u", "e">>}

run_typecheck(input) ==
    LET output == IF input.script.stderr /= <<>> THEN input.script.stderr
                  ELSE input.script.stdout
    IN  IF ~input.script_exists THEN [success |-> TRUE, output |-> <<>>]
        ELSE IF env_flag(input.TYPECHECK_DISABLE) THEN [success |-> TRUE, output |-> <<>>]
        ELSE IF input.uv /= 0
        THEN [success |-> TRUE,
              output |-> <<"[typecheck] Warning: uv not found, skipping type check">>]
        ELSE IF input.pyright /= 0
        THEN [success |-> TRUE,
              output |-> <<"[typecheck] Warning: pyright not installed, skipping type check">>]
        ELSE IF input.script.timeout
        THEN [success |-> TRUE, output |-> <<"[typecheck] Warning: timed out after 120s">>]
        ELSE IF env_flag(input.TYPECHECK_WARN_ONLY)
        THEN [success |-> TRUE,
              output |-> IF input.script.returncode /= 0 THEN output ELSE <<>>]
        ELSE [success |-> input.script.returncode = 0, output |-> output]

\* lines 101-106: the first max_errors lines and a count of the others
display_output(output) ==
    LET lines == split(strip(output), <<"\n">>)
    IN  join(<<"\n">>, SubSeq(lines, 1, Min({Len(lines), max_errors})))
        \o (IF Len(lines) > max_errors
            THEN <<"\n", "... and ">> \o str(Len(lines) - max_errors) \o <<" more errors">>
            ELSE <<>>)

\* what a run leaves: the JSON object printed, if any, and the exit status
HookResult(printed) == [printed |-> printed, status |-> <<0>>]

\* main without the look at stop_hook_active
main_without_loop_guard(input) ==
    LET changed_files == get_changed_python_files(input.diff, input.untracked)
        r == run_typecheck(input)
    IN  IF changed_files = <<>> THEN HookResult(<<>>)
        ELSE IF ~r.success /\ r.output /= <<>>
        THEN HookResult(<<[decision |-> "block", reason |-> display_output(r.output)]>>)
        ELSE HookResult(<<>>)

main(input) ==
    LET changed_files == get_changed_python_files(input.diff, input.untracked)
        r == run_typecheck(input)
        reason == <<"Type checking found errors in ">> \o str(Len(changed_files))
                  \o <<" file(s):", "\n", "\n">> \o display_output(r.output)
                  \o <<"\n", "\n", "Fix these type errors. Run ", "(U+0060)", "/checker",
                        "(U+0060)", " to recheck.">>
    IN  IF input.stop_hook_active = <<TRUE>> THEN HookResult(<<>>)
        ELSE IF changed_files = <<>> THEN HookResult(<<>>)
        ELSE IF ~r.success /\ r.output /= <<>>
        THEN HookResult(<<[decision |-> "block", reason |-> reason]>>)
        ELSE HookResult(<<>>)

\* the answers of `git diff --name-only HEAD -- backend/src/intric`
GitDiffs ==
    { [returncode |-> 0, stdout |-> <<>>],
      [returncode |-> 0, stdout |-> <<INTRIC, "a", ".py", "\n">>],
      [returncode |-> 0, stdout |-> <<INTRIC, "a", ".py", "\n", INTRIC, "r", ".md", "\n">>],
      [returncode |-> 0, stdout |-> <<INTRIC, "r", ".md", "\n", INTRIC, "s", ".py", "i", "\n">>],
      [returncode |-> 128, stdout |-> <<>>] }

\* the answers of `git ls-files --others --exclude-standard backend/src/intric`
GitUntracked ==
    { [returncode |-> 0, stdout |-> <<>>],
      [returncode |-> 0, stdout |-> <<INTRIC, "n", ".py", "\n">>],
      [returncode |-> 128, stdout |-> <<>>] }

SixteenErrors ==
    [i \in 1..32 |-> IF i % 2 = 0 THEN "\n" ELSE "e"]

\* the runs of typecheck_changed.sh
ScriptRuns ==
    { [timeout |-> FALSE, returncode |-> 0, stdout |-> <<>>, stderr |-> <<>>],
      [timeout |-> FALSE, returncode |-> 0, stdout |-> <<"o", "k", "\n">>, stderr |-> <<>>],
      [timeout |-> FALSE, returncode |-> 1, stdout |-> <<"e", "\n", "f", "\n">>,
       stderr |-> <<>>],
      [timeout |-> FALSE, returncode |-> 1, stdout |-> <<"o">>, stderr |-> <<"w", "\n">>],
      [timeout |-> FALSE, returncode |-> 1, stdout |-> <<>>, stderr |-> <<>>],
      [timeout |-> FALSE, returncode |-> 1, stdout |-> <<"\n">>, stderr |-> <<>>],
      [timeout |-> FALSE, returncode |-> 2, stdout |-> SixteenErrors, stderr |-> <<>>],
      [timeout |-> TRUE, returncode |-> 0, stdout |-> <<>>, stderr |-> <<>>] }

\* the values of TYPECHECK_DISABLE and TYPECHECK_WARN_ONLY
EnvFlags == {<<>>, <<"1">>, <<"t", "R", "u", "e">>, <<"0">>}

HookInputs ==
    [stop_hook_active : {<<>>, <<FALSE>>, <<TRUE>>},
     diff : GitDiffs,
     untracked : GitUntracked,
     script_exists : BOOLEAN,
     TYPECHECK_DISABLE : EnvFlags,
     TYPECHECK_WARN_ONLY : EnvFlags,
     uv : {0, 1},
     pyright : {0, 1},
     script : ScriptRuns]

HookInit ==
    /\ \E input \in HookInputs :
            hook = [input |-> input, pc |-> "start", printed |-> <<>>, status |-> <<>>]
    /\ today = 1
    /\ tasks = <<>>
    /\ MergeIdle
    /\ ResolverIdle
    /\ BoardIdle
    /\ RenderIdle
    /\ RaceIdle
    /\ ConfigIdle
    /\ PageIdle

\* lines 83-120: the hook runs from its start to its exit
HookMain ==
    /\ hook /= <<>>
    /\ hook.pc = "start"
    /\ \E r \in {main(hook.input)} :
            hook' = [hook EXCEPT !.pc = "exited", !.printed = r.printed,
                                 !.status = r.status]
    /\ UNCHANGED <<today, tasks, mergeVars, resolverVars, boardVars, renderVars,
                   raceVars, configVars, pageVars>>

HookNext == HookMain

SpecHook == HookInit /\ [][HookNext]_vars

(***************************************************************************)
(* Configuration: the four settings a command reads, in the order it reads *)
(* them.  A text that is absent (None, not in os.environ, no flag) is      *)
(* <<>>, a text that is there is <<text>>; the empty text is <<>>.         *)
(***************************************************************************)
Names == <<"VIKUNJA_BASE_URL", "VIKUNJA_API_TOKEN", "VIKUNJA_PROJECT_NAME",
           "VIKUNJA_VIEW_NAME">>

NameSet == {Names[i] : i \in DOMAIN Names}

\* get_env(name, default, required) as the commands call it
default_of(name) ==
    CASE name = "VIKUNJA_PROJECT_NAME" -> DEFAULT_PROJECT
      [] name = "VIKUNJA_VIEW_NAME" -> DEFAULT_VIEW
      [] OTHER -> <<>>

required_of(name) == name \in {"VIKUNJA_BASE_URL", "VIKUNJA_API_TOKEN"}

\* os.environ.get(name, default)
environ_get(env, name, default) ==
    IF env[name] /= <<>> THEN env[name][1] ELSE default

\* load_zshrc_env: e is os.environ with _ZSHRC_LOADED and the number of times
\* the file was read, zshrc the file (<<>> when there is none) as the
\* assignments its VIKUNJA_ lines make
load_zshrc_env(e, zshrc) ==
    IF e.loaded THEN e
    ELSE IF zshrc = <<>> THEN [e EXCEPT !.loaded = TRUE]
    ELSE [environ |-> [n \in NameSet |->
                          IF e.environ[n] = <<>> /\ zshrc[1][n] /= <<>>
                          THEN zshrc[1][n] ELSE e.environ[n]],
          loaded |-> TRUE,
          reads |-> e.reads + 1]

get_env(e, zshrc, name, default, required) ==
    LET value == environ_get(e.environ, name, default)
        e1 == IF value = <<>> THEN load_zshrc_env(e, zshrc) ELSE e
        value1 == environ_get(e1.environ, name, default)
    IN  [e |-> e1, value |-> value1, died |-> required /\ value1 = <<>>]

V_flag == <<"f">>
V_env == <<"e">>
V_rc == <<"r">>

Environs == [NameSet -> {<<>>, <<V_env>>, << <<>> >>}]

ConfigInit ==
    /\ environ \in Environs
    /\ zshrc_loaded = FALSE
    /\ \E flags \in [NameSet -> {<<>>, V_flag}] :
       \E zshrc \in {<<>>} \cup {<<f>> : f \in [NameSet -> {<<>>, <<V_rc>>}]} :
            cfg = [flags |-> flags, zshrc |-> zshrc, env0 |-> environ, reads |-> 0,
                   settings |-> [n \in NameSet |-> <<>>], pc |-> 1, died |-> FALSE]
    /\ today = 1
    /\ tasks = <<>>
    /\ MergeIdle
    /\ ResolverIdle
    /\ BoardIdle
    /\ RenderIdle
    /\ RaceIdle
    /\ PageIdle
    /\ HookIdle

\* args.<flag> or get_env(name, default, required): the i-th setting read
ReadSetting(i) ==
    /\ cfg /= <<>>
    /\ cfg.pc = i
    /\ ~cfg.died
    /\ LET name == Names[i]
       IN  IF cfg.flags[name] /= <<>>
           THEN /\ cfg' = [cfg EXCEPT !.settings[name] = <<cfg.flags[name]>>,
                                      !.pc = i + 1]
                /\ UNCHANGED <<environ, zshrc_loaded>>
           ELSE \E r \in {get_env([environ |-> environ, loaded |-> zshrc_loaded,
                                   reads |-> cfg.reads],
                                  cfg.zshrc, name, default_of(name), required_of(name))} :
                    /\ environ' = r.e.environ
                    /\ zshrc_loaded' = r.e.loaded
                    /\ cfg' = [cfg EXCEPT !.settings[name] = <<r.value>>,
                                          !.reads = r.e.reads,
                                          !.pc = i + 1,
                                          !.died = r.died]
    /\ UNCHANGED <<today, tasks, mergeVars, pageVars, hookVars, resolverVars, boardVars, renderVars, raceVars>>

ReadBaseUrl == ReadSetting(1)
ReadToken == ReadSetting(2)
ReadProjectName == ReadSetting(3)
ReadViewName == ReadSetting(4)

ConfigNext == ReadBaseUrl \/ ReadToken \/ ReadProjectName \/ ReadViewName

SpecConfig == ConfigInit /\ [][ConfigNext]_vars

(***************************************************************************)
(* Pagination: list_tasks_for_view against a server that answers page n    *)
(* with the n-th of its pages and with an empty list after the last one.   *)
(* A response is [type, value]: a JSON list (of tasks or of buckets), a    *)
(* JSON object, or None for an empty body.                                 *)
(***************************************************************************)
per_page == 100

\* tasks.extend(bucket.get("tasks", []) or []) for bucket in data
RECURSIVE bucket_tasks(_)
bucket_tasks(data) ==
    IF data = <<>> THEN <<>>
    ELSE (IF "tasks" \in DOMAIN Head(data) THEN Head(data).tasks ELSE <<>>)
         \o bucket_tasks(Tail(data))

\* isinstance(data, list) and data and "tasks" in data[0]
bucket_grouped(data) ==
    data.type = "list" /\ data.value /= <<>> /\ "tasks" \in DOMAIN data.value[1]

extract_tasks(data) ==
    IF data.type = "list"
    THEN IF bucket_grouped(data) THEN bucket_tasks(data.value) ELSE data.value
    ELSE IF data.type = "dict" /\ "tasks" \in DOMAIN data.value THEN data.value.tasks
    ELSE <<>>

\* one turn of the loop that goes on after every page that is not empty
list_tasks_turn_until_empty(st, data) ==
    IF extract_tasks(data) = <<>> THEN [st EXCEPT !.done = TRUE]
    ELSE [st EXCEPT !.tasks = @ \o extract_tasks(data), !.page = @ + 1]

\* one turn of the while loop: st holds tasks, page and whether it has left
list_tasks_turn(st, data) ==
    LET chunk == extract_tasks(data)
    IN  IF chunk = <<>> THEN [st EXCEPT !.done = TRUE]
        ELSE IF bucket_grouped(data) \/ Len(chunk) < per_page
        THEN [st EXCEPT !.tasks = @ \o chunk, !.done = TRUE]
        ELSE [st EXCEPT !.tasks = @ \o chunk, !.page = @ + 1]

\* GET .../tasks?page=n&per_page=100
request_page(pages, n) ==
    IF n \in DOMAIN pages THEN pages[n] ELSE [type |-> "list", value |-> <<>>]

TaskIds(from, n) == [i \in 1..n |-> [id |-> from + i]]

ListPage(value) == [type |-> "list", value |-> value]

\* the pages a server may answer with
PagePool ==
    << ListPage(TaskIds(0, per_page)),
      ListPage(TaskIds(100, per_page - 1)),
      ListPage(TaskIds(200, 2)),
      ListPage(<<>>),
      [type |-> "None", value |-> <<>>],
      ListPage(<< [id |-> 1, tasks |-> TaskIds(300, 1)], [id |-> 2, tasks |-> <<>>],
                  [id |-> 3, tasks |-> TaskIds(310, 2)] >>),
      ListPage(<< [id |-> 1, tasks |-> TaskIds(400, per_page)], [id |-> 2] >>),
      ListPage(<< [id |-> 1, tasks |-> <<>>] >>),
      [type |-> "dict", value |-> [tasks |-> TaskIds(500, per_page)]],
      [type |-> "dict", value |-> [tasks |-> TaskIds(600, 3)]],
      [type |-> "dict", value |-> [message |-> <<"m">>]] >>

PagesInit ==
    /\ \E n \in 0..MaxPages : \E f \in [1..n -> DOMAIN PagePool] :
            pager = [pages |-> [i \in 1..n |-> PagePool[f[i]]], page |-> 1,
                     tasks |-> <<>>, requested |-> <<>>, done |-> FALSE]
    /\ today = 1
    /\ tasks = <<>>
    /\ MergeIdle
    /\ ResolverIdle
    /\ BoardIdle
    /\ RenderIdle
    /\ RaceIdle
    /\ ConfigIdle
    /\ HookIdle

\* lines 185-201: a page is requested and the loop's body run on it
FetchPage ==
    /\ pager /= <<>>
    /\ ~pager.done
    /\ pager' = list_tasks_turn([pager EXCEPT !.requested = Append(@, pager.page)],
                                request_page(pager.pages, pager.page))
    /\ UNCHANGED <<today, tasks, mergeVars, resolverVars, boardVars, renderVars,
                   raceVars, configVars, hookVars>>

PagesNext == FetchPage

SpecPages == PagesInit /\ [][PagesNext]_vars

\* the loop runs on: the request it is about to make is made
SpecPagesFair == SpecPages /\ WF_vars(FetchPage)

\* the step is an invocation of command cmd
Invoked(cmd) == steps' = steps + 1 /\ out'.cmd = cmd

\* the invocation made no mutating call and left the board as it was
NothingMutated ==
    /\ calls' = <<>>
    /\ tasks' = tasks
    /\ labels' = labels
    /\ comments' = comments

\* the places of the create_task calls in a log
Creates(log) == {i \in DOMAIN log : log[i].op = "create_task"}

\* C11: with no task id and no task matched by the resolver, ensure-task
\* creates a task, while progress-update, link-pr and move-task end in an
\* error having made no mutating call: the board is as it was.
C11_NoMatch ==
    /\ steps' = steps + 1
    /\ out'.cmd \in {"ensure-task", "progress-update", "link-pr", "move-task"}
    /\ out'.args.task_id = 0
    /\ find_task_by_matching(tasks, out'.args.pr_number, out'.args.branch,
                             out'.args.title) = <<>>

C11_CreateOrFail ==
    [][ C11_NoMatch =>
            IF out'.cmd = "ensure-task"
            THEN (/\ project_and_view(out'.args) /= 0
                  /\ find_bucket_id(IF out'.args.bucket /= <<>> THEN out'.args.bucket
                                    ELSE DEFAULT_BUCKET) /= 0)
                 => /\ out'.action = "created"
                    /\ Len(tasks') = Len(tasks) + 1
                    /\ Cardinality(Creates(calls')) = 1
            ELSE out'.action = "error" /\ NothingMutated ]_vars

C11_Witness ==
    /\ out.cmd = "link-pr"
    /\ out.action = "error"
    /\ out.args.task_id = 0
    /\ out.args.pr_number /= <<>>
    /\ project_and_view(out.args) /= 0
    /\ calls = <<>>
    /\ tasks /= <<>>

\* C12: no invocation deletes a task or a label of the board: every task id
\* and every label stays; labels (--add, --remove, --replace) changes nothing
\* of the board's tasks but the labels attached to the one task.
C12_NothingDeleted ==
    [][ /\ Len(tasks') >= Len(tasks)
        /\ \A i \in DOMAIN tasks : tasks'[i].id = tasks[i].id
        /\ Len(labels') >= Len(labels)
        /\ \A i \in DOMAIN labels : labels'[i] = labels[i]
        /\ Invoked("labels") =>
                /\ Len(tasks') = Len(tasks)
                /\ \A i \in DOMAIN tasks :
                        IF tasks[i].id = out'.args.task_id
                        THEN [tasks'[i] EXCEPT !.labels = tasks[i].labels] = tasks[i]
                        ELSE tasks'[i] = tasks[i] ]_vars

C12_Witness ==
    /\ out.cmd = "labels"
    /\ out.action = "labels-updated"
    /\ out.args.remove /= <<>>
    /\ \E i \in DOMAIN calls : calls[i].op = "remove_label_from_task"
    /\ get_task(Board, 2)[1].labels = <<>>
    /\ \E i \in DOMAIN labels : label_key(labels[i].title) = <<"b", "u", "g">>

\* C13: ensure-task that matches no task, given pr_number N and a title not
\* starting with "[PR-", makes one create_task call: title "[PR-N] <title>",
\* then " [branch:B]" when a branch is given, the requested or default bucket,
\* a description holding the managed marker (put before a supplied
\* description that lacks it); label pr-N is attached to the new task by a
\* later call.
C13_Case ==
    /\ Invoked("ensure-task")
    /\ out'.args.task_id = 0
    /\ project_and_view(out'.args) /= 0
    /\ find_task_by_matching(tasks, out'.args.pr_number, out'.args.branch,
                             out'.args.title) = <<>>
    /\ out'.args.pr_number /= <<>>
    /\ ~startswith(out'.args.title, <<"[", "P", "R", "-">>)
    /\ find_bucket_id(IF out'.args.bucket /= <<>> THEN out'.args.bucket
                      ELSE DEFAULT_BUCKET) /= 0

C13_CreateThenLabel ==
    [][ C13_Case =>
            LET a == out'.args
                made == Creates(calls')
                k == CHOOSE i \in made : TRUE
                c == calls'[k]
                attached == {i \in DOMAIN calls' :
                                /\ calls'[i].op = "add_label_to_task"
                                /\ calls'[i].task_id = c.task_id
                                /\ \E l \in DOMAIN labels' :
                                      /\ labels'[l].id = calls'[i].label_id
                                      /\ label_key(labels'[l].title)
                                            = <<"p", "r", "-">> \o a.pr_number}
            IN  /\ Cardinality(made) = 1
                /\ c.title = <<"[", "P", "R", "-">> \o a.pr_number \o <<"]", " ">> \o a.title
                             \o (IF a.branch /= <<>>
                                 THEN <<" ", "[", "b", "r", "a", "n", "c", "h", ":">>
                                      \o a.branch \o <<"]">>
                                 ELSE <<>>)
                /\ c.bucket_id = find_bucket_id(IF a.bucket /= <<>> THEN a.bucket
                                                ELSE DEFAULT_BUCKET)
                /\ contains(c.description, MANAGED_MARKER)
                /\ a.description /= <<>> =>
                        c.description = IF contains(a.description, MANAGED_MARKER)
                                        THEN a.description
                                        ELSE MANAGED_MARKER \o <<"\n", "\n">> \o a.description
                /\ attached /= {}
                /\ \A i \in attached : i > k
                /\ c.task_id \notin {tasks[i].id : i \in DOMAIN tasks} ]_vars

C13_Witness ==
    /\ out.cmd = "ensure-task"
    /\ out.action = "created"
    /\ out.args.pr_number /= <<>>
    /\ out.args.branch /= <<>>
    /\ out.args.description /= <<>>
    /\ ~contains(out.args.description, MANAGED_MARKER)
    /\ Len(calls) >= 3
    /\ calls[1].op = "create_task"

\* the names an invocation gives that are on no project, view or bucket
C17_NamesMissing(cmd, a) ==
    \/ find_project_id(IF a.project /= <<>> THEN a.project ELSE DEFAULT_PROJECT) = 0
    \/ view_of(a) = 0
    \/ cmd = "ensure-task" /\ a.bucket /= <<>> /\ find_bucket_id(a.bucket) = 0
    \/ cmd = "move-task" /\ find_bucket_id(a.to) = 0

\* the names an invocation looks up, in the order it looks them up, hold one
\* that is missing
C17_LookupFails(cmd, a) ==
    LET no_project == find_project_id(IF a.project /= <<>> THEN a.project
                                      ELSE DEFAULT_PROJECT) = 0
        matched == find_task_by_matching(tasks, a.pr_number, a.branch, a.title) /= <<>>
    IN  CASE cmd = "ensure-task" ->
                /\ a.task_id = 0
                /\ \/ project_and_view(a) = 0
                   \/ ~matched /\ find_bucket_id(IF a.bucket /= <<>> THEN a.bucket
                                                 ELSE DEFAULT_BUCKET) = 0
          [] cmd = "move-task" ->
                \/ a.task_id = 0 /\ project_and_view(a) = 0
                \/ a.task_id /= 0 /\ get_task(Board, a.task_id) /= <<>> /\ view_of(a) = 0
                \/ /\ IF a.task_id /= 0 THEN get_task(Board, a.task_id) /= <<>> ELSE matched
                   /\ find_bucket_id(a.to) = 0
          [] OTHER -> a.task_id = 0 /\ project_and_view(a) = 0

C17_Commands == {"ensure-task", "progress-update", "link-pr", "move-task"}

\* C17 as stated: an invocation that names a project, a view or a bucket that
\* does not exist ends in an error, with nothing mutated.
C17_MissingNameIsFatal ==
    [][ (steps' = steps + 1 /\ out'.cmd \in C17_Commands
                            /\ C17_NamesMissing(out'.cmd, out'.args))
            => out'.action = "error" /\ NothingMutated ]_vars

\* C17: no invocation changes the buckets or makes a call other than on tasks,
\* labels and comments; a project, view or bucket that the invocation looks up
\* and that does not exist ends it in an error before any mutating call;
\* ensure-task naming a missing bucket creates no task and move-task naming a
\* missing target bucket leaves every task as it was.
C17_MissingLookupIsFatal ==
    [][ /\ buckets' = buckets
        /\ \A i \in DOMAIN calls' :
                calls'[i].op \in {"create_task", "update_task", "create_label",
                                  "add_label_to_task", "add_comment",
                                  "remove_label_from_task", "replace_task_labels"}
        /\ (steps' = steps + 1 /\ out'.cmd \in C17_Commands) =>
                /\ C17_LookupFails(out'.cmd, out'.args)
                        => out'.action = "error" /\ NothingMutated
                /\ (out'.cmd = "ensure-task" /\ out'.args.bucket /= <<>>
                        /\ find_bucket_id(out'.args.bucket) = 0)
                        => Len(tasks') = Len(tasks) /\ Creates(calls') = {}
                /\ (out'.cmd = "move-task" /\ find_bucket_id(out'.args.to) = 0)
                        => tasks' = tasks ]_vars

C17_Witness ==
    /\ out.cmd = "move-task"
    /\ out.args.task_id = 1
    /\ get_task(Board, 1) /= <<>>
    /\ find_bucket_id(out.args.to) = 0
    /\ out.action = "error"
    /\ calls = <<>>

(***************************************************************************)
(* Renderer claims                                                         *)
(***************************************************************************)
\* the fragment read tag by tag with the stack of open elements: an element
\* opens at the start or inside an open element, a closing tag closes the
\* element opened last, text stands inside an open element, and nothing is
\* left open at the end
RECURSIVE C14_WellNested(_, _, _)
C14_WellNested(parts, i, open) ==
    IF i > Len(parts) THEN open = <<>>
    ELSE CASE parts[i] \in {"<ul>", "<li>"} ->
                /\ i = 1 \/ open /= <<>>
                /\ parts[i] = "<li>" => (open /= <<>> /\ open[Len(open)] = "<ul>")
                /\ C14_WellNested(parts, i + 1, Append(open, parts[i]))
           [] parts[i] = "</ul>" ->
                /\ open /= <<>> /\ open[Len(open)] = "<ul>"
                /\ C14_WellNested(parts, i + 1, SubSeq(open, 1, Len(open) - 1))
           [] parts[i] = "</li>" ->
                /\ open /= <<>> /\ open[Len(open)] = "<li>"
                /\ C14_WellNested(parts, i + 1, SubSeq(open, 1, Len(open) - 1))
           [] OTHER ->
                /\ open /= <<>>
                /\ C14_WellNested(parts, i + 1, open)

\* C14: whatever the levels of the items are (each 0, 1 or 2), the fragment
\* of _render_nested_list starts with <ul>, closes every <ul> and <li> it
\* opened in nested order and is one top-level <ul> element, with one <li>
\* for every item.
C14_BalancedOneTopLevelList ==
    rendered /= <<>> =>
        /\ rendered[1][1] = "<ul>"
        /\ C14_WellNested(rendered[1], 1, <<>>)
        /\ Cardinality({i \in DOMAIN rendered[1] : rendered[1][i] = "<li>"}) = Len(source)

C14_Witness ==
    /\ rendered /= <<>>
    /\ Len(source) = 4
    /\ source[1].level = 2
    /\ source[2].level = 0
    /\ source[3].level = 2
    /\ source[4].level = 1
    /\ C14_WellNested(rendered[1], 1, <<>>)

C15_Entities ==
    { <<"&", "a", "m", "p", ";">>, <<"&", "l", "t", ";">>, <<"&", "g", "t", ";">>,
      <<"&", "q", "u", "o", "t", ";">>, <<"&", "#", "x", "2", "7", ";">> }

\* C15: the output of format_html_block holds no character "<" or ">" (the
\* only angle brackets are those of the tags p, br, ul, li the renderer
\* emits) and every "&" in it starts an entity, on the paragraph path and on
\* the list path.
C15_UserTextEscaped ==
    rendered /= <<>> =>
        \A i \in DOMAIN rendered[1] :
            /\ rendered[1][i] \notin {"<", ">"}
            /\ rendered[1][i] = "&" =>
                    \E e \in C15_Entities :
                        startswith(SubSeq(rendered[1], i, Len(rendered[1])), e)

C15_Witness ==
    /\ rendered /= <<>>
    /\ contains(source, <<"<">>)
    /\ contains(source, <<">">>)
    /\ contains(source, <<"&">>)
    /\ contains(rendered[1], <<"<li>", "&", "l", "t", ";", "b", "&", "g", "t", ";", "</li>">>)
    /\ contains(rendered[1], <<"<li>", "&", "a", "m", "p", ";">>)

\* the lines of the text that are not blank, each without trailing whitespace
C16_Lines(value) == nonblank([i \in DOMAIN split(strip(value), <<"\n">>) |->
                                    rstrip(split(strip(value), <<"\n">>)[i])])

\* the text of the k-th <li> of a fragment
C16_ItemText(parts, k) ==
    LET at == CHOOSE i \in DOMAIN parts :
                    /\ parts[i] = "<li>"
                    /\ Cardinality({j \in 1..i : parts[j] = "<li>"}) = k
        tags == {j \in (at + 1)..Len(parts) :
                    parts[j] \in {"<ul>", "</ul>", "<li>", "</li>"}}
        stop == CHOOSE j \in tags : \A j2 \in tags : j <= j2
    IN  SubSeq(parts, at + 1, stop - 1)

\* the text that a list line brings to its item
C16_Content(line) == escape_html(_apply_checkbox(lstrip(Tail(lstrip(line)))))

C16_Placeholder(value, res) ==
    strip(value) = <<>> => res = <<"<p>", "(U+2013)", "</p>">>

C16_List(value, res) ==
    LET lines == C16_Lines(value)
    IN  /\ res[1] = "<ul>"
        /\ res[Len(res)] = "</ul>"
        /\ Cardinality({i \in DOMAIN res : res[i] = "<li>"}) = Len(lines)
        /\ \A k \in DOMAIN lines : C16_ItemText(res, k) = C16_Content(lines[k])

C16_Paragraph(value, res) ==
    LET lines == C16_Lines(value)
    IN  res = <<"<p>">>
              \o join(<<"<br>">>, [i \in DOMAIN lines |-> escape_html(strip(lines[i]))])
              \o <<"</p>">>

\* C16: blank text gives the placeholder paragraph; text whose non-blank
\* lines all begin, after their leading whitespace, with "-" or "*" gives an
\* unordered list with one item per non-blank line in input order; any other
\* text gives one paragraph of the escaped lines joined by line breaks.
C16_ThreeWayPartition ==
    rendered /= <<>> =>
        LET lines == C16_Lines(source)
        IN  /\ C16_Placeholder(source, rendered[1])
            /\ strip(source) /= <<>> =>
                    IF \A i \in DOMAIN lines :
                            Head(lstrip(lines[i])) \in {"-", "*"}
                    THEN C16_List(source, rendered[1])
                    ELSE C16_Paragraph(source, rendered[1])

\* the partition with the leading whitespace of a list line being spaces and
\* tabs only
C16_PartitionOnBlanksAndTabs ==
    rendered /= <<>> =>
        LET lines == C16_Lines(source)
        IN  /\ C16_Placeholder(source, rendered[1])
            /\ strip(source) /= <<>> =>
                    IF \A i \in DOMAIN lines :
                            /\ lstrip_blanks(lines[i]) /= <<>>
                            /\ Head(lstrip_blanks(lines[i])) \in {"-", "*"}
                    THEN C16_List(source, rendered[1])
                    ELSE C16_Paragraph(source, rendered[1])

\* tabs count two, spaces one, up to the first other character
RECURSIVE C20_Indent(_)
C20_Indent(line) ==
    IF line = <<>> THEN 0
    ELSE IF Head(line) = " " THEN 1 + C20_Indent(Tail(line))
    ELSE IF Head(line) = "\t" THEN 2 + C20_Indent(Tail(line))
    ELSE 0

C20_Base == Min({C20_Indent(source[i]) : i \in DOMAIN source})

\* C20: the level of every line is floor((indent - base) / 2) held within
\* 0..2, with tabs counted as two spaces and the base being the least indent
\* of the lines; some line has level 0, and an indent of 4 or more beyond the
\* base gives level 2.
C20_LevelFromIndent ==
    rendered /= <<>> =>
        /\ Len(rendered[1]) = Len(source)
        /\ \A i \in DOMAIN source :
                LET steps2 == (C20_Indent(source[i]) - C20_Base) \div 2
                IN  /\ rendered[1][i].level = IF steps2 > 2 THEN 2 ELSE steps2
                    /\ rendered[1][i].level \in 0..2
                    /\ C20_Indent(source[i]) - C20_Base >= 4 => rendered[1][i].level = 2
        /\ \E i \in DOMAIN source : rendered[1][i].level = 0

C20_Witness ==
    /\ rendered /= <<>>
    /\ C20_Base > 0
    /\ \E i, j \in DOMAIN source :
            /\ C20_Indent(source[i]) - C20_Base >= 5
            /\ rendered[1][i].level = 2
            /\ Head(source[j]) = "\t"
            /\ rendered[1][j].level = 1

(***************************************************************************)
(* Concurrency claims                                                      *)
(***************************************************************************)
C18_AllDone == \A p \in Procs : procs[p].pc = "done"

C18_Stored == get_task(Board, writes[Len(writes)].sent.id)[1]

\* C18: of two progress-update processes on the same managed task, with their
\* requests interleaved in any order, none fails, both come to their end, and
\* once both have ended the stored task holds the description and the
\* percent_done of the update_task request that arrived last.
C18_LastWriteWins ==
    /\ [](procs /= <<>> =>
            /\ \A p \in Procs : procs[p].pc /= "failed"
            /\ C18_AllDone =>
                    /\ Len(writes) = 2
                    /\ C18_Stored.description = writes[Len(writes)].sent.description
                    /\ C18_Stored.percent_done = writes[Len(writes)].sent.percent_done)
    /\ <>(procs /= <<>> /\ C18_AllDone)

\* both ended, the last writer had fetched the task before the first wrote:
\* what the first wrote is gone
C18_Witness ==
    /\ procs /= <<>>
    /\ C18_AllDone
    /\ Len(writes) = 2
    /\ procs[writes[2].proc].seen = 0
    /\ writes[1].sent.description /= writes[2].sent.description
    /\ writes[1].sent.percent_done /= writes[2].sent.percent_done
    /\ C18_Stored.description = writes[2].sent.description
    /\ C18_Stored.percent_done = writes[2].sent.percent_done

(***************************************************************************)
(* Configuration claims                                                    *)
(***************************************************************************)
\* the value the precedence gives: the flag, else the environment variable
\* the process was started with, else the rc file's value, else the default
C19_Effective(name) ==
    IF cfg.flags[name] /= <<>> THEN cfg.flags[name]
    ELSE IF cfg.env0[name] /= <<>> THEN cfg.env0[name][1]
    ELSE IF cfg.zshrc /= <<>> /\ cfg.zshrc[1][name] /= <<>> THEN cfg.zshrc[1][name][1]
    ELSE default_of(name)

\* the rc file is read at most once and no variable the process was started
\* with is changed
C19_ReadOnceEnvKept ==
    cfg /= <<>> =>
        /\ cfg.reads <= 1
        /\ \A n \in NameSet : cfg.env0[n] /= <<>> => environ[n] = cfg.env0[n]

\* C19: every setting read has the value of the first source that defines it
\* in the order flag, environment variable, rc file, default; the rc file is
\* read at most once and never overrides a variable of the environment.
C19_Precedence ==
    cfg /= <<>> =>
        /\ \A n \in NameSet : cfg.settings[n] /= <<>> => cfg.settings[n][1] = C19_Effective(n)
        /\ C19_ReadOnceEnvKept

\* the precedence apart from the case the code misses: a setting that has a
\* default and neither flag nor environment variable may get the default
\* though the rc file sets it
C19_PrecedenceButRcUnderDefault ==
    cfg /= <<>> =>
        \A n \in NameSet :
            cfg.settings[n] /= <<>> =>
                \/ cfg.settings[n][1] = C19_Effective(n)
                \/ /\ cfg.flags[n] = <<>>
                   /\ cfg.env0[n] = <<>>
                   /\ default_of(n) /= <<>>
                   /\ cfg.settings[n][1] = default_of(n)

(***************************************************************************)
(* Pagination claims                                                       *)
(***************************************************************************)
\* the tasks a response holds, whatever its shape
C21_TasksOf(data) ==
    IF data.type = "list"
    THEN IF data.value /= <<>> /\ "tasks" \in DOMAIN data.value[1]
         THEN bucket_tasks(data.value) ELSE data.value
    ELSE IF data.type = "dict" /\ "tasks" \in DOMAIN data.value THEN data.value.tasks
    ELSE <<>>

\* the page is empty, is bucket-grouped, or holds fewer than 100 tasks
C21_LastPage(data) ==
    \/ C21_TasksOf(data) = <<>>
    \/ data.type = "list" /\ data.value /= <<>> /\ "tasks" \in DOMAIN data.value[1]
    \/ Len(C21_TasksOf(data)) < 100

RECURSIVE C21_Concat(_, _)
C21_Concat(pages, k) ==
    IF k = 0 THEN <<>>
    ELSE C21_Concat(pages, k - 1) \o C21_TasksOf(request_page(pages, k))

\* C21: the pages requested are 1, 2, 3, ... in order and the tasks held are
\* those of the pages fetched, in page order; when the loop has left, the last
\* page requested is the first that is empty, bucket-grouped or short of 100
\* tasks; and the loop does leave.
C21_PagesInOrderUntilLastPage ==
    /\ [](pager /= <<>> =>
            /\ pager.requested = [i \in 1..Len(pager.requested) |-> i]
            /\ pager.tasks = C21_Concat(pager.pages, Len(pager.requested))
            /\ \A k \in 1..(Len(pager.requested) - 1) :
                    ~C21_LastPage(request_page(pager.pages, k))
            /\ pager.done <=>
                    /\ pager.requested /= <<>>
                    /\ C21_LastPage(request_page(pager.pages, Len(pager.requested))))
    /\ <>(pager /= <<>> /\ pager.done)

C21_Witness ==
    /\ pager /= <<>>
    /\ pager.done
    /\ pager.requested = <<1, 2, 3>>
    /\ request_page(pager.pages, 1).type = "dict"
    /\ bucket_grouped(request_page(pager.pages, 3))
    /\ Len(pager.tasks) > 2 * per_page

(***************************************************************************)
(* Merge: fixed point                                                      *)
(***************************************************************************)
\* the step merges again what the step before merged: same summary, same
\* progress, same date, into the description the step before returned
C22_SameMergeAgain ==
    /\ mergeIn /= <<>>
    /\ merges' = merges + 1
    /\ mergeIn'[1].summary_html = mergeIn[1].summary_html
    /\ mergeIn'[1].progress = mergeIn[1].progress
    /\ mergeIn'[1].block = mergeIn[1].block

\* C22: update_status_in_description applied to its own result, with the same
\* summary and progress on the same date, returns that result unchanged,
\* whatever the description it started from.
C22_FixedPoint ==
    [][C22_SameMergeAgain => description' = description]_vars

\* the same for a start that held one start-delimiter and, after it, one
\* end-delimiter: the replace path is a fixed point on its own output
C22_FixedPointOnReplacePath ==
    [][ ( /\ C22_SameMergeAgain
          /\ count(mergeIn[1].description, STATUS_START) = 1
          /\ count(mergeIn[1].description, STATUS_END) = 1
          /\ find(mergeIn[1].description, STATUS_START)
                < find(mergeIn[1].description, STATUS_END) )
        => description' = description ]_vars

(***************************************************************************)
(* Move race: what move-task writes                                        *)
(***************************************************************************)
\* the step is the update_task request of the move-task process p
C23_MoveWrites(p) ==
    /\ procs[p].cmd = "move-task"
    /\ procs[p].pc = "write"
    /\ procs'[p].pc = "done"

\* the board with nothing but the bucket of the task of process p changed
C23_Moved(p) ==
    [i \in DOMAIN tasks |->
        IF tasks[i].id = procs[p].task_id
        THEN [tasks[i] EXCEPT !.bucket_id = procs[p].bucket_id]
        ELSE tasks[i]]

\* C23: move-task changes only the bucket_id of its task: title, description,
\* labels and percent_done stay as the other invocations left them, also when
\* a progress-update writes the task between move-task's get_task and
\* update_task.
C23_MoveChangesOnlyBucket ==
    [][\A p \in Procs : C23_MoveWrites(p) => tasks' = C23_Moved(p)]_vars

\* the same when no request wrote a task between the get_task and the
\* update_task of the move
C23_MoveChangesOnlyBucketUnlessWrittenBetween ==
    [][\A p \in Procs :
            (C23_MoveWrites(p) /\ procs[p].seen = Len(writes))
                => tasks' = C23_Moved(p)]_vars

(***************************************************************************)
(* Progress: the range of percent_done and percent                         *)
(***************************************************************************)
\* the progress-update of the state has written its task
C24_Updated ==
    /\ out.cmd = "progress-update"
    /\ out.action = "progress-updated"

\* the task of the invocation as the board holds it
C24_Stored == tasks[CHOOSE i \in DOMAIN tasks : tasks[i].id = out.task_id]

\* the status block of the invocation with the given progress text
C24_Block(progress) ==
    status_block(format_html_block(normalize_field(out.args.summary)), progress)

\* C24: whatever the signs and the order of --done and --total, the
\* percent_done stored is between 0 and 1, the percent reported is between 0
\* and 100; with a total that is not positive the ratio is 0 and the status
\* block of a managed task shows the dash as its progress, never a ratio.
C24_RatioAndPercentInRange ==
    C24_Updated =>
        /\ C24_Stored.percent_done = lastUpdate[1].percent_done
        /\ C24_Stored.percent_done[2] > 0
        /\ 0 <= C24_Stored.percent_done[1]
        /\ C24_Stored.percent_done[1] <= C24_Stored.percent_done[2]
        /\ out.percent \in 0..100
        /\ out.args.total <= 0 =>
                /\ C24_Stored.percent_done[1] = 0
                /\ out.percent = 0
                /\ is_managed(C24_Stored.description) =>
                        /\ contains(C24_Stored.description, C24_Block(<<"(U+2013)">>))
                        /\ ~contains(C24_Stored.description, <<"/">>)
        /\ (out.args.total > 0 /\ is_managed(C24_Stored.description)) =>
                contains(C24_Stored.description,
                         C24_Block(str(out.args.done) \o <<"/">> \o str(out.args.total)
                                   \o <<" ", "(">> \o str(out.percent) \o <<"%", ")">>))

\* a managed task updated with a negative total and a done above it
C24_Witness ==
    /\ C24_Updated
    /\ out.args.total < 0
    /\ out.args.done > out.args.total
    /\ out.args.done > 0
    /\ is_managed(C24_Stored.description)

\* a task updated with a negative done, and one with done above a positive total
C24_WitnessNegativeDone ==
    /\ C24_Updated
    /\ out.args.done < 0
    /\ out.args.total > 0

C24_WitnessDoneAboveTotal ==
    /\ C24_Updated
    /\ out.args.total > 0
    /\ out.args.done > out.args.total

(***************************************************************************)
(* Stop hook: when it blocks                                               *)
(***************************************************************************)
C25_Exited == hook /= <<>> /\ hook.pc = "exited"

\* git named a file of backend/src/intric that ends in .py
C25_ChangedPythonFile ==
    \E answer \in {hook.input.diff, hook.input.untracked} :
        /\ answer.returncode = 0
        /\ \E i \in 1..(Len(answer.stdout) - 2) :
                /\ answer.stdout[i] = INTRIC
                /\ answer.stdout[i + 1] \notin {"\n", ".py"}
                /\ answer.stdout[i + 2] = ".py"
                /\ (i + 2 = Len(answer.stdout) \/ answer.stdout[i + 3] = "\n")

\* the type check ran, failed, is not waved through, and printed something
C25_TypecheckFailed ==
    /\ hook.input.script_exists
    /\ hook.input.TYPECHECK_DISABLE \notin {<<"1">>, <<"t", "R", "u", "e">>}
    /\ hook.input.TYPECHECK_WARN_ONLY \notin {<<"1">>, <<"t", "R", "u", "e">>}
    /\ hook.input.uv = 0
    /\ hook.input.pyright = 0
    /\ ~hook.input.script.timeout
    /\ hook.input.script.returncode /= 0
    /\ (hook.input.script.stdout /= <<>> \/ hook.input.script.stderr /= <<>>)

\* C25: the stop hook prints a "block" decision only when stop_hook_active
\* is not true, a changed Python file under backend/src/intric exists and the
\* type check failed with output; with stop_hook_active true it prints
\* nothing; it always exits with status 0.
C25_BlockOnlyOnFailedCheck ==
    C25_Exited =>
        /\ hook.status = <<0>>
        /\ hook.printed /= <<>> =>
                /\ hook.printed[1].decision = "block"
                /\ hook.input.stop_hook_active /= <<TRUE>>
                /\ C25_ChangedPythonFile
                /\ C25_TypecheckFailed
        /\ hook.input.stop_hook_active = <<TRUE>> => hook.printed = <<>>

\* and it does block whenever the three conditions hold
C25_BlocksOnFailedCheck ==
    ( /\ C25_Exited
      /\ hook.input.stop_hook_active /= <<TRUE>>
      /\ C25_ChangedPythonFile
      /\ C25_TypecheckFailed )
        => hook.printed /= <<>>

\* a run that blocked, and a run with the same answers of git and of the
\* type check that did not because stop_hook_active was true
C25_Witness ==
    /\ C25_Exited
    /\ hook.printed /= <<>>
    /\ hook.input.stop_hook_active = <<FALSE>>

C25_WitnessActive ==
    /\ C25_Exited
    /\ hook.input.stop_hook_active = <<TRUE>>
    /\ C25_ChangedPythonFile
    /\ C25_TypecheckFailed
    /\ hook.printed = <<>>

====
